---- MODULE Spec2Model ----
(***************************************************************************)
(* Container tree, edge collection and layering of the GLAD dependency     *)
(* graph (lib/models/container.js, lib/models/graph.js, lib/gladContext.js,*)
(* lib/parsers/parserJsTs.js).                                             *)
(*                                                                         *)
(* A Container is a record of the arena `nodes`; its id 'n<k>' is its      *)
(* index k, a null parent is 0.  Strings are sequences of one-character    *)
(* strings, so that split, dirname, endsWith and replace are computed.     *)
(***************************************************************************)
EXTENDS Integers, Sequences, FiniteSets, TLC

VARIABLES nodes,      \* every Container constructed so far, by id
          leafNodes,  \* module-level Map: payload -> Container id
          edges,      \* graph.edges, a list of Edge records
          allFiles,   \* context.allFiles
          layers,     \* the Layers filled by the last layering pass
          last,       \* the operation that ran last and what it returned
          cli         \* one run of bin/glad.js: position in main(), input,
                      \* what processTheGraph did, exit code

vars == <<nodes, leafNodes, edges, allFiles, layers, last, cli>>

----------------------------------------------------------------------------
(* Bounds *)

MaxNodes == 4      \* Containers constructed in one run
MaxTreeNodes == 4  \* the same, when only the tree is built
MaxRollNodes == 4  \* the same, when edges are rolled up
MaxList == 2       \* length of a targetNodes / sourceNodes list
MaxEdges == 2      \* Edge objects in graph.edges
MaxLayerEdges == 3 \* the same, when the edges are classified
MaxNameLen == 8    \* characters of a Container name
MaxStatements == 3 \* statements of a DOT digraph
MaxPackages == 3   \* packages of a pubspec
MaxImports == 3    \* imports found in the JS/TS sources
MaxSegments == 3   \* segments of a path tested against a pattern
MaxContent == 4    \* characters of a Swift source text
MaxFolderNodes == 5 \* Containers, when folders lie inside folders
MaxProcessNodes == 5 \* Containers of a process that holds two Graphs

(* Input strings *)

Empty == <<>>
AJs == <<"a", ".", "j", "s">>
ATs == <<"a", ".", "t", "s">>
D == <<"d">>
DB == <<"d", "/", "b">>
B == <<"b">>
DotJs == <<".", "j", "s">>
DotTs == <<".", "t", "s">>

DAJs == <<"d", "/", "a", ".", "j", "s">>
DATs == <<"d", "/", "a", ".", "t", "s">>

Paths == {DAJs, DATs}
RollPaths == {AJs, DB}
RollNames == {B}
RollImports == {<<AJs, AJs>>, <<AJs, DB>>}
LayerFiles == {AJs, ATs}
LayerImports == {<<AJs, ATs>>, <<ATs, AJs>>, <<ATs, B>>, <<B, AJs>>, <<B, B>>}
TreePaths == {AJs, D, DB}
Names == {B, D}

SlashB == <<"/", "b">>
SlashDB == <<"/", "d", "/", "b">>

\* lists of at most n elements of S
SeqsUpTo(S, n) == UNION {[1..k -> S] : k \in 0..n}

----------------------------------------------------------------------------
(* Strings *)

Max(S) == CHOOSE x \in S : \A y \in S : y <= x

Min(S) == CHOOSE x \in S : \A y \in S : x <= y

\* stringIsEmpty: nothing but spaces
stringIsEmpty(text) == \A i \in 1..Len(text) : text[i] = " "

\* text.split('/').filter(token => !stringIsEmpty(token))
RECURSIVE SplitPath(_)
SplitPath(s) ==
  IF s = <<>> THEN <<>>
  ELSE LET slashes == {i \in 1..Len(s) : s[i] = "/"}
           cut == IF slashes = {} THEN Len(s) + 1 ELSE Min(slashes)
           token == SubSeq(s, 1, cut - 1)
           rest == SplitPath(SubSeq(s, cut + 1, Len(s)))
       IN IF stringIsEmpty(token) THEN rest ELSE <<token>> \o rest

\* path.dirname of node:path (posix)
Dirname(p) ==
  IF p = <<>> THEN <<".">>
  ELSE LET ends == {k \in 2..Len(p) :
                      p[k] = "/" /\ \E j \in (k+1)..Len(p) : p[j] # "/"}
       IN IF ends = {} THEN (IF p[1] = "/" THEN <<"/">> ELSE <<".">>)
          ELSE IF p[1] = "/" /\ Max(ends) = 2 THEN <<"/", "/">>
          ELSE SubSeq(p, 1, Max(ends) - 1)

\* text.endsWith(suffix)
EndsWith(text, suffix) ==
  /\ Len(text) >= Len(suffix)
  /\ SubSeq(text, Len(text) - Len(suffix) + 1, Len(text)) = suffix

\* text.replace(pattern, replacement): the first occurrence only
Replace(text, pattern, replacement) ==
  LET at == {i \in 1..(Len(text) - Len(pattern) + 1) :
               SubSeq(text, i, i + Len(pattern) - 1) = pattern}
  IN IF at = {} THEN text
     ELSE SubSeq(text, 1, Min(at) - 1) \o replacement
          \o SubSeq(text, Min(at) + Len(pattern), Len(text))

----------------------------------------------------------------------------
(* Container *)

Ids == 1..Len(nodes)

rootNode == 1

\* new Container(parent, name)
NewContainer(parent, name) ==
  [parent |-> parent, name |-> name, data |-> Empty, isLeaf |-> FALSE,
   sub |-> <<>>, targetNodes |-> <<>>, sourceNodes |-> <<>>]

SeqToSet(s) == {s[i] : i \in 1..Len(s)}

\* this.sub.find(c => c.name === text), 0 when undefined
getByText(ns, c, text) ==
  LET hits == {i \in 1..Len(ns[c].sub) : ns[ns[c].sub[i]].name = text}
  IN IF hits = {} THEN 0 ELSE ns[c].sub[Min(hits)]

upsertAlwaysCreating(ns, c, text) ==
  [ns |-> Append([ns EXCEPT ![c].sub = Append(@, Len(ns) + 1)],
                 NewContainer(c, text)),
   ret |-> Len(ns) + 1]

\* Container.upsert: the arena after the call and the Container returned
upsert(ns, c, text) ==
  LET subContainer == getByText(ns, c, text)
  IN IF subContainer # 0
     THEN [ns |-> ns, ret |-> subContainer]
     ELSE [ns |-> Append([ns EXCEPT ![c].sub = Append(@, Len(ns) + 1)],
                         NewContainer(c, text)),
           ret |-> Len(ns) + 1]

MapSet(m, k, v) == [x \in (DOMAIN m) \cup {k} |-> IF x = k THEN v ELSE m[x]]

\* Container.setAsLeaf on st = [ns, lf]
setAsLeaf(st, c, userData) ==
  [ns |-> [st.ns EXCEPT ![c].isLeaf = TRUE, ![c].data = userData],
   lf |-> MapSet(st.lf, userData, c)]

\* Container.getLeafNodeByUserData, 0 when undefined
getLeafNodeByUserData(lf, userData) ==
  IF userData \in DOMAIN lf THEN lf[userData] ELSE 0

RECURSIVE createContainerMappingBasedOnArray(_, _, _, _)
createContainerMappingBasedOnArray(st, c, arrayToTurnIntoTree, userData) ==
  IF Len(arrayToTurnIntoTree) >= 1
  THEN LET up == upsert(st.ns, c, arrayToTurnIntoTree[1])
           sub == up.ret
           nextTokens == Tail(arrayToTurnIntoTree)
       IN IF Len(nextTokens) = 0
          THEN setAsLeaf([ns |-> up.ns, lf |-> st.lf], sub, userData)
          ELSE createContainerMappingBasedOnArray(
                 [ns |-> [up.ns EXCEPT ![sub].data = Dirname(userData)],
                  lf |-> st.lf],
                 sub, nextTokens, userData)
  ELSE st

rollupOnlyThisNode(ns, c, nodeTarget) ==
  [ns EXCEPT ![c].targetNodes = Append(@, nodeTarget)]

\* Container.rollupIsCallingThisNode
RECURSIVE rollupIsCallingThisNode(_, _, _)
rollupIsCallingThisNode(ns, c, nodeTarget) ==
  LET pushed == [ns EXCEPT ![c].targetNodes = Append(@, nodeTarget)]
  IN IF ns[c].parent # 0
     THEN rollupIsCallingThisNode(pushed, ns[c].parent, nodeTarget)
     ELSE pushed

\* Container.rollupIsBeingCalledByThisNode
RECURSIVE rollupIsBeingCalledByThisNode(_, _, _)
rollupIsBeingCalledByThisNode(ns, c, nodeCallers) ==
  LET pushed == [ns EXCEPT ![c].sourceNodes = Append(@, nodeCallers)]
  IN IF ns[c].parent # 0
     THEN rollupIsBeingCalledByThisNode(pushed, ns[c].parent, nodeCallers)
     ELSE pushed

\* Container.getWeight
getWeight(ns, c) == Len(ns[c].targetNodes) + Len(ns[c].sourceNodes)

\* Container.getFlatListOfNodes: the leaves under c, c itself when it is one
RECURSIVE getFlatListOfNodes(_, _)
RECURSIVE FlatListOfSubs(_, _, _)
getFlatListOfNodes(ns, c) ==
  IF ns[c].isLeaf THEN <<c>> ELSE FlatListOfSubs(ns, ns[c].sub, 1)

FlatListOfSubs(ns, sub, i) ==
  IF i > Len(sub) THEN <<>>
  ELSE getFlatListOfNodes(ns, sub[i]) \o FlatListOfSubs(ns, sub, i + 1)

\* Container.cumulateNodeInDataSet
RECURSIVE cumulateNodeInDataSet(_, _)
cumulateNodeInDataSet(ns, c) ==
  {c} \cup UNION {cumulateNodeInDataSet(ns, ns[c].sub[i]) : i \in 1..Len(ns[c].sub)}

\* Container.removeNodeDescendant
RECURSIVE removeNodeDescendant(_, _, _)
RECURSIVE RemoveInSubs(_, _, _, _)
removeNodeDescendant(ns, c, nodeToDelete) ==
  LET kept == SelectSeq(ns[c].sub, LAMBDA x : x # nodeToDelete)
  IN RemoveInSubs([ns EXCEPT ![c].sub = kept], kept, 1, nodeToDelete)

RemoveInSubs(ns, sub, i, nodeToDelete) ==
  IF i > Len(sub) THEN ns
  ELSE RemoveInSubs(removeNodeDescendant(ns, sub[i], nodeToDelete),
                    sub, i + 1, nodeToDelete)

----------------------------------------------------------------------------
(* Edges: the Array of Edge records owned by the Graph *)

NewEdge(s, t) ==
  [source |-> s, target |-> t, isCircular |-> FALSE, isUpDependency |-> FALSE]

\* Edges.getEdge: index of the first edge a -> b, 0 when undefined
getEdge(es, a, b) ==
  LET hits == {i \in 1..Len(es) : es[i].source = a /\ es[i].target = b}
  IN IF hits = {} THEN 0 ELSE Min(hits)

\* Edges.upsertEdge
EdgesUpsertEdge(es, s, t) ==
  IF getEdge(es, s, t) # 0 THEN es ELSE Append(es, NewEdge(s, t))

\* Edges.dropEdgeWithThisTarget
dropEdgeWithThisTarget(es, n) == SelectSeq(es, LAMBDA e : e.target # n)

\* Edges.dropEdgeWithThisSource
dropEdgeWithThisSource(es, n) == SelectSeq(es, LAMBDA e : e.source # n)

\* order of the characters of the input strings
CharRank(ch) ==
  LET alphabet == <<".", "/", "a", "b", "c", "d", "e", "f", "g", "h", "i", "j",
                    "k", "l", "m", "n", "o", "p", "q", "r", "s", "t", "u", "v",
                    "w", "x", "y", "z">>
  IN CHOOSE i \in 1..Len(alphabet) : alphabet[i] = ch

\* a.localeCompare(b): -1, 0 or 1
localeCompare(a, b) ==
  LET diff == {i \in 1..Min({Len(a), Len(b)}) : a[i] # b[i]}
  IN IF diff # {}
     THEN (IF CharRank(a[Min(diff)]) < CharRank(b[Min(diff)]) THEN -1 ELSE 1)
     ELSE IF Len(a) < Len(b) THEN -1 ELSE IF Len(a) > Len(b) THEN 1 ELSE 0

\* Edges.sortByName: stable, by source.name then target.name
EdgeBefore(ns, e, f) ==
  LET bySource == localeCompare(ns[e.source].name, ns[f.source].name)
  IN \/ bySource < 0
     \/ bySource = 0 /\ localeCompare(ns[e.target].name, ns[f.target].name) < 0

RECURSIVE sortByName(_, _)
sortByName(ns, es) ==
  IF es = <<>> THEN <<>>
  ELSE LET first == Min({i \in 1..Len(es) :
                          \A j \in 1..Len(es) : ~EdgeBefore(ns, es[j], es[i])})
       IN <<es[first]>> \o
          sortByName(ns, SubSeq(es, 1, first - 1) \o SubSeq(es, first + 1, Len(es)))

----------------------------------------------------------------------------
(* Graph *)

\* Graph.getAllNodes
getAllNodes(ns) == cumulateNodeInDataSet(ns, rootNode)

\* Graph.getAllNodesInEdges
getAllNodesInEdges(es) ==
  {es[i].source : i \in 1..Len(es)} \cup {es[i].target : i \in 1..Len(es)}

isCircularIgnoringSelf(es, nodeA, nodeB) ==
  getEdge(es, nodeA, nodeB) # 0 /\ getEdge(es, nodeB, nodeA) # 0

\* Graph.isCircular
isCircular(es, nodeA, nodeB) ==
  IF nodeA = nodeB THEN FALSE
  ELSE getEdge(es, nodeA, nodeB) # 0 /\ getEdge(es, nodeB, nodeA) # 0

\* Graph.prepareEdges
prepareEdges(ns, es) ==
  LET sorted == sortByName(ns, es)
  IN [i \in 1..Len(sorted) |->
        [sorted[i] EXCEPT
           !.isCircular = isCircular(sorted, sorted[i].source, sorted[i].target),
           !.isUpDependency = FALSE]]

\* Graph.upsertEdge on g = [ns, lf, es]
upsertEdge(g, nodeSource, nodeTarget) ==
  [ns |-> rollupIsBeingCalledByThisNode(
            rollupIsCallingThisNode(g.ns, nodeSource, nodeTarget),
            nodeTarget, nodeSource),
   lf |-> g.lf,
   es |-> EdgesUpsertEdge(g.es, nodeSource, nodeTarget)]

\* the leaf registered for text, a new parentless leaf when there is none
FileNodeByText(g, text) ==
  IF getLeafNodeByUserData(g.lf, text) # 0
  THEN [g |-> g, node |-> getLeafNodeByUserData(g.lf, text)]
  ELSE LET made == setAsLeaf([ns |-> Append(g.ns, NewContainer(0, text)),
                              lf |-> g.lf],
                             Len(g.ns) + 1, text)
       IN [g |-> [ns |-> made.ns, lf |-> made.lf, es |-> g.es],
           node |-> Len(g.ns) + 1]

\* Graph.upsertFileLinkByText
upsertFileLinkByText(g, textA, textB) ==
  LET fileSource == FileNodeByText(g, textA)
      fileTarget == FileNodeByText(fileSource.g, textB)
  IN upsertEdge(fileTarget.g, fileSource.node, fileTarget.node)

\* the forEach of dropContainerAndInternalNodesAndLinks
RECURSIVE DropEdgesOfNodes(_, _, _)
DropEdgesOfNodes(es, list, i) ==
  IF i > Len(list) THEN es
  ELSE DropEdgesOfNodes(
         dropEdgeWithThisSource(dropEdgeWithThisTarget(es, list[i]), list[i]),
         list, i + 1)

\* Graph.dropContainerAndInternalNodesAndLinks
dropContainerAndInternalNodesAndLinks(g, containerNode) ==
  [ns |-> removeNodeDescendant(g.ns, rootNode, containerNode),
   lf |-> g.lf,
   es |-> DropEdgesOfNodes(g.es, getFlatListOfNodes(g.ns, containerNode), 1)]

getOrphanNodesIgnoringFiles(ns, es) ==
  {node \in getAllNodes(ns) : node \notin getAllNodesInEdges(es)}

\* Graph.getOrphanNodes
getOrphanNodes(ns, es) ==
  {node \in getAllNodes(ns) :
     /\ node \notin getAllNodesInEdges(es)
     /\ \/ ns[node].isLeaf
        \/ Len(getFlatListOfNodes(ns, node)) = 0}

\* [...allNodes].sort(): ascending code units, which is the order of CharRank
RECURSIVE SortStrings(_)
SortStrings(S) ==
  IF S = {} THEN <<>>
  ELSE LET least == CHOOSE a \in S : \A b \in S : localeCompare(a, b) <= 0
       IN <<least>> \o SortStrings(S \ {least})

\* the comparator of allEdges.sort
EdgeDetailBefore(a, b) ==
  LET result == localeCompare(a.source, b.source)
  IN \/ result < 0
     \/ result = 0 /\ localeCompare(a.target, b.target) < 0

RECURSIVE SortEdgeDetails(_)
SortEdgeDetails(ds) ==
  IF ds = <<>> THEN <<>>
  ELSE LET first == Min({i \in 1..Len(ds) :
                          \A j \in 1..Len(ds) : ~EdgeDetailBefore(ds[j], ds[i])})
       IN <<ds[first]>> \o
          SortEdgeDetails(SubSeq(ds, 1, first - 1) \o SubSeq(ds, first + 1, Len(ds)))

\* the Set of payloads that Graph.serialize collects
PayloadsOfAllNodes(ns) ==
  {ns[n].data : n \in {m \in getAllNodes(ns) : ~stringIsEmpty(ns[m].data)}}

\* Graph.serialize: the object handed to JSON.stringify, which is also what
\* JSON.parse gives back (arrays of strings and of two-string objects)
serialize(ns, es) ==
  [edges |-> SortEdgeDetails([i \in 1..Len(es) |->
                                [source |-> ns[es[i].source].data,
                                 target |-> ns[es[i].target].data]]),
   nodes |-> SortStrings(PayloadsOfAllNodes(ns))]

----------------------------------------------------------------------------
(* JsTsParser.mergeMatchingTSAndJSFiles *)

\* the pairs {js, ts} collected from allFiles
fileSetToMerge(files) ==
  {[js |-> file, ts |-> Replace(file, DotJs, DotTs)] :
     file \in {f \in files : EndsWith(f, DotJs)
                             /\ Replace(f, DotJs, DotTs) \in files}}

\* a redirection of the sources only
RedirectSources(es, nodeToMerge, nodeToKeep) ==
  [i \in 1..Len(es) |->
     [es[i] EXCEPT !.source = IF @ = nodeToMerge THEN nodeToKeep ELSE @]]

\* redirect all edges to the merged node
Redirect(es, nodeToMerge, nodeToKeep) ==
  [i \in 1..Len(es) |->
     [es[i] EXCEPT !.source = IF @ = nodeToMerge THEN nodeToKeep ELSE @,
                   !.target = IF @ = nodeToMerge THEN nodeToKeep ELSE @]]

\* the body of fileSetToMerge.forEach for one pair
MergeOne(g, filesToMerge) ==
  LET nodeToKeep == getLeafNodeByUserData(g.lf, filesToMerge.ts)
      nodeToMerge == getLeafNodeByUserData(g.lf, filesToMerge.js)
  IN IF nodeToKeep = 0 THEN g
     ELSE IF nodeToMerge = 0
     THEN [g EXCEPT !.ns = removeNodeDescendant(g.ns, rootNode, 0)]
     ELSE [ns |-> removeNodeDescendant(
                    [g.ns EXCEPT ![nodeToKeep].name = @ \o <<"/">> \o DotJs],
                    rootNode, nodeToMerge),
           lf |-> g.lf,
           es |-> Redirect(g.es, nodeToMerge, nodeToKeep)]

\* fileSetToMerge.forEach; the pairs have different js and ts files
RECURSIVE MergeAll(_, _)
MergeAll(g, pairs) ==
  IF pairs = {} THEN g
  ELSE LET pair == CHOOSE q \in pairs : TRUE
       IN MergeAll(MergeOne(g, pair), pairs \ {pair})

mergeMatchingTSAndJSFiles(g, files) == MergeAll(g, fileSetToMerge(files))

----------------------------------------------------------------------------
(* Layering: createLayers of render/renderBase.js and its use in GLADContext *)

\* the (source, target) pairs of the edges that are not flagged circular
NonCircular(es) ==
  {<<es[i].source, es[i].target>> : i \in {j \in 1..Len(es) : ~es[j].isCircular}}

Predecessors(es, n) == {pair[1] : pair \in {q \in NonCircular(es) : q[2] = n}}

\* nodes of in-degree zero over the non-circular edges
Seeds(es, nodesToRender) == {n \in nodesToRender : Predecessors(es, n) = {}}

RECURSIVE ReachableFrom(_, _)
ReachableFrom(es, S) ==
  LET more == S \cup {pair[2] : pair \in {q \in NonCircular(es) : q[1] \in S}}
  IN IF more = S THEN S ELSE ReachableFrom(es, more)

\* depth: 1 + the maximum depth of the resolved predecessors; a node that is
\* being visited is not re-entered, a node reachable only through a cycle is 0
RECURSIVE Depth(_, _, _, _)
Depth(es, resolved, n, visiting) ==
  LET preds == (Predecessors(es, n) \cap resolved) \ (visiting \cup {n})
  IN IF n \notin resolved \/ preds = {} THEN 0
     ELSE 1 + Max({Depth(es, resolved, q, visiting \cup {n}) : q \in preds})

\* createLayers: layer i + 1 holds the nodes of depth i
createLayers(es, nodesToRender) ==
  LET resolved == ReachableFrom(es, Seeds(es, nodesToRender))
      depth == [n \in nodesToRender |-> Depth(es, resolved, n, {})]
      deepest == Max({depth[n] : n \in nodesToRender})
  IN [i \in 1..(deepest + 1) |->
        [nodes |-> {n \in nodesToRender : depth[n] = i - 1}]]

\* index of the last layer whose nodes include n, -1 when there is none
LayerIndex(ls, n) ==
  LET hits == {i \in 1..Len(ls) : n \in ls[i].nodes}
  IN IF hits = {} THEN -1 ELSE Max(hits) - 1

MarkUpIgnoringCircular(es, ls) ==
  [i \in 1..Len(es) |->
     LET sourceLayerIndex == LayerIndex(ls, es[i].source)
         targetLayerIndex == LayerIndex(ls, es[i].target)
     IN IF /\ sourceLayerIndex >= targetLayerIndex
           /\ sourceLayerIndex # -1 /\ targetLayerIndex # -1
        THEN [es[i] EXCEPT !.isUpDependency = TRUE]
        ELSE es[i]]

MarkUpStrictly(es, ls) ==
  [i \in 1..Len(es) |->
     LET sourceLayerIndex == LayerIndex(ls, es[i].source)
         targetLayerIndex == LayerIndex(ls, es[i].target)
     IN IF /\ ~es[i].isCircular
           /\ sourceLayerIndex > targetLayerIndex
           /\ sourceLayerIndex # -1 /\ targetLayerIndex # -1
        THEN [es[i] EXCEPT !.isUpDependency = TRUE]
        ELSE es[i]]

\* GLADContext.simulateRenderingToMarkUpDependencies
simulateRenderingToMarkUpDependencies(es, ls) ==
  [i \in 1..Len(es) |->
     LET sourceLayerIndex == LayerIndex(ls, es[i].source)
         targetLayerIndex == LayerIndex(ls, es[i].target)
     IN IF /\ ~es[i].isCircular
           /\ sourceLayerIndex >= targetLayerIndex
           /\ sourceLayerIndex # -1 /\ targetLayerIndex # -1
        THEN [es[i] EXCEPT !.isUpDependency = TRUE]
        ELSE es[i]]

\* GLADContext.runLayeringForDependencyAnalysis: the edges and the Layers
runLayeringForDependencyAnalysis(es) ==
  LET nodesToRender == getAllNodesInEdges(es)
  IN IF nodesToRender = {} THEN [es |-> es, ls |-> <<>>]
     ELSE LET ls == createLayers(es, nodesToRender)
          IN [es |-> simulateRenderingToMarkUpDependencies(es, ls), ls |-> ls]

----------------------------------------------------------------------------
(* Exclude patterns (lib/util/strings.js) *)

\* one global replace over a sequence of characters and regex tokens: every
\* leftmost occurrence of the characters `what` becomes the one token `by`
RECURSIVE ReplaceAll(_, _, _)
ReplaceAll(s, what, by) ==
  IF Len(s) < Len(what) THEN s
  ELSE IF SubSeq(s, 1, Len(what)) = what
       THEN <<by>> \o ReplaceAll(SubSeq(s, Len(what) + 1, Len(s)), what, by)
       ELSE <<s[1]>> \o ReplaceAll(Tail(s), what, by)

\* the regex source built from one glob pattern: the special characters are
\* escaped, then the escaped **/, **, * and ? are rewritten, in this order
GlobToRegex(pattern) ==
  ReplaceAll(
    ReplaceAll(
      ReplaceAll(
        ReplaceAll(pattern, <<"*", "*", "/">>, "(.*/)?"),
        <<"*", "*">>, ".*"),
      <<"*">>, ".*"),
    <<"?">>, "[^/]")

\* new RegExp('^' + regexPattern + '$').test(filePath)
RECURSIVE RegexTest(_, _)
RegexTest(regex, filePath) ==
  IF regex = <<>> THEN filePath = <<>>
  ELSE LET rest == Tail(regex)
           After(k) == SubSeq(filePath, k + 1, Len(filePath))
       IN CASE regex[1] = ".*" ->
                 \E k \in 0..Len(filePath) : RegexTest(rest, After(k))
            [] regex[1] = "(.*/)?" ->
                 \/ RegexTest(rest, filePath)
                 \/ \E k \in 1..Len(filePath) :
                      filePath[k] = "/" /\ RegexTest(rest, After(k))
            [] regex[1] = "[^/]" ->
                 /\ filePath # <<>>
                 /\ filePath[1] # "/"
                 /\ RegexTest(rest, Tail(filePath))
            [] OTHER ->
                 /\ filePath # <<>>
                 /\ filePath[1] = regex[1]
                 /\ RegexTest(rest, Tail(filePath))

\* matchesExcludePattern(filePath, excludePatterns), excludePatterns an array
matchesExcludePattern(filePath, excludePatterns) ==
  \E i \in 1..Len(excludePatterns) :
    RegexTest(GlobToRegex(excludePatterns[i]), filePath)

----------------------------------------------------------------------------
(* DOT input (lib/parsers/parserDot.js) *)

\* the elements of a list in the order of their first occurrence, as
\* Array.from(new Set(...)) lists them
RECURSIVE Distinct(_)
Distinct(s) ==
  IF s = <<>> THEN <<>>
  ELSE LET front == Distinct(SubSeq(s, 1, Len(s) - 1))
       IN IF s[Len(s)] \in SeqToSet(front) THEN front
          ELSE Append(front, s[Len(s)])

RECURSIVE Flatten(_)
Flatten(ss) == IF ss = <<>> THEN <<>> ELSE Head(ss) \o Flatten(Tail(ss))

\* A statement of the digraph body is a record
\*   [t |-> "node" | "edge", a, b, quoted, attrs]:
\*   "a" [..];   "a";   a;   "a" -> "b" [..];   "a" -> "b";   a -> b;
\* what nodeRegex captures in it
NodeRegexMatch(st) ==
  IF st.quoted /\ st.attrs
  THEN (IF st.t = "node" THEN <<st.a>> ELSE <<st.b>>)
  ELSE <<>>

\* what simpleNodeRegex captures in it: the name that stands before the ';'
SimpleNodeRegexMatch(st) ==
  IF st.attrs THEN <<>>
  ELSE (IF st.t = "node" THEN <<st.a>> ELSE <<st.b>>)

\* what edgeRegex captures in it
EdgeRegexMatch(st) ==
  IF st.t = "edge" /\ st.quoted
  THEN <<[source |-> st.a, target |-> st.b]>> ELSE <<>>

\* what simpleEdgeRegex captures in it
SimpleEdgeRegexMatch(st) ==
  IF st.t = "edge" /\ ~st.quoted
  THEN <<[source |-> st.a, target |-> st.b]>> ELSE <<>>

\* DotParser.parseDotContent on the statements of the digraph
parseDotContent(stmts) ==
  LET Over(F(_)) == Flatten([i \in 1..Len(stmts) |-> F(stmts[i])])
      quotedEdges == Over(EdgeRegexMatch)
      simpleEdges == IF quotedEdges = <<>> THEN Over(SimpleEdgeRegexMatch)
                     ELSE <<>>
      Ends(e) == <<e.source, e.target>>
      ends == Flatten([i \in 1..Len(simpleEdges) |-> Ends(simpleEdges[i])])
  IN [edges |-> quotedEdges \o simpleEdges,
      nodes |-> Distinct(Over(NodeRegexMatch) \o Over(SimpleNodeRegexMatch)
                         \o ends)]

\* text.substring(1)
Substring1(text) == IF text = <<>> THEN <<>> ELSE Tail(text)

StartsWithSlash(text) == text # <<>> /\ text[1] = "/"

\* the strip of the leading "/" in loadGraphFromDot
StripLeadingSlash(parsed) ==
  IF /\ parsed.nodes # <<>>
     /\ \A i \in 1..Len(parsed.nodes) : StartsWithSlash(parsed.nodes[i])
  THEN [nodes |-> [i \in 1..Len(parsed.nodes) |-> Substring1(parsed.nodes[i])],
        edges |-> [i \in 1..Len(parsed.edges) |->
                     [source |-> Substring1(parsed.edges[i].source),
                      target |-> Substring1(parsed.edges[i].target)]]]
  ELSE parsed

\* nodeName.split(/[/\\]/), empty parts included
RECURSIVE SplitAtSeparators(_)
SplitAtSeparators(s) ==
  LET seps == {i \in 1..Len(s) : s[i] \in {"/", "\\"}}
  IN IF seps = {} THEN <<s>>
     ELSE <<SubSeq(s, 1, Min(seps) - 1)>>
          \o SplitAtSeparators(SubSeq(s, Min(seps) + 1, Len(s)))

\* nodeName.split('/').pop()
LastSegment(s) ==
  LET slashes == {i \in 1..Len(s) : s[i] = "/"}
  IN IF slashes = {} THEN s ELSE SubSeq(s, Max(slashes) + 1, Len(s))

\* The loops over the input, here and in the parsers below, stop on an arena
\* without its root, which no Graph has: the test has the result of one
\* iteration evaluated before the next one starts.

\* the upserts along parts[0..n-2], from the Container current
RECURSIVE UpsertAlong(_, _, _)
UpsertAlong(ns, current, parts) ==
  IF Len(parts) <= 1 THEN [ns |-> ns, ret |-> current]
  ELSE LET up == upsert(ns, current, Head(parts))
       IN UpsertAlong(up.ns, up.ret, Tail(parts))

\* loadGraphFromDot, "Create nodes": one node name
CreateDotNode(st, nodeName) ==
  LET NonEmpty(part) == Len(part) > 0
      parts == SelectSeq(SplitAtSeparators(nodeName), NonEmpty)
  IN IF Len(parts) > 1
     THEN LET folder == UpsertAlong(st.ns, rootNode, parts)
              leaf == upsert(folder.ns, folder.ret, parts[Len(parts)])
          IN setAsLeaf([ns |-> leaf.ns, lf |-> st.lf], leaf.ret, nodeName)
     ELSE LET leaf == upsert(st.ns, rootNode, nodeName)
          IN setAsLeaf([ns |-> leaf.ns, lf |-> st.lf], leaf.ret, nodeName)

RECURSIVE CreateDotNodes(_, _)
CreateDotNodes(st, filteredNodes) ==
  IF filteredNodes = <<>> \/ st.ns = <<>> THEN st
  ELSE CreateDotNodes(CreateDotNode(st, Head(filteredNodes)),
                      Tail(filteredNodes))

\* loadGraphFromDot, "Create edges"
RECURSIVE CreateDotEdges(_, _, _)
CreateDotEdges(g, parsedEdges, filteredNodeSet) ==
  IF parsedEdges = <<>> \/ g.ns = <<>> THEN g
  ELSE LET edge == Head(parsedEdges)
       IN CreateDotEdges(
            IF edge.source \in filteredNodeSet /\ edge.target \in filteredNodeSet
            THEN upsertFileLinkByText(g, edge.source, edge.target)
            ELSE g,
            Tail(parsedEdges), filteredNodeSet)

\* loadGraphFromDot, "Strip container prefixes from leaf node display names"
RECURSIVE RenameDotLeaves(_, _, _)
RenameDotLeaves(ns, lf, filteredNodes) ==
  IF filteredNodes = <<>> \/ ns = <<>> THEN ns
  ELSE LET leaf == getLeafNodeByUserData(lf, Head(filteredNodes))
       IN RenameDotLeaves(
            IF leaf # 0
            THEN [ns EXCEPT ![leaf].name = LastSegment(Head(filteredNodes))]
            ELSE ns,
            lf, Tail(filteredNodes))

\* the node names that loadGraphFromDot keeps; options.exclude is the array
\* of patterns, empty when the option is not given
FilteredNodes(parsedNodes, exclude) ==
  LET Kept(nodeName) == ~matchesExcludePattern(nodeName, exclude)
  IN IF exclude = <<>> THEN parsedNodes ELSE SelectSeq(parsedNodes, Kept)

\* DotParser.loadGraphFromDot on the graph g = [ns, lf, es]
loadGraphFromDot(g, stmts, exclude) ==
  LET parsed == StripLeadingSlash(parseDotContent(stmts))
      filteredNodes == FilteredNodes(parsed.nodes, exclude)
      made == CreateDotNodes([ns |-> g.ns, lf |-> g.lf], filteredNodes)
      linked == CreateDotEdges([ns |-> made.ns, lf |-> made.lf, es |-> g.es],
                               parsed.edges, SeqToSet(filteredNodes))
  IN [ns |-> RenameDotLeaves(linked.ns, linked.lf, filteredNodes),
      lf |-> linked.lf, es |-> linked.es]

graphSvgFromDotFileWithoutChecks(g, file, exclude) ==
  [g |-> loadGraphFromDot(g, file.stmts, exclude), error |-> ""]

\* DotParser.graphSvgFromDotFile: the graph, and the Error thrown if any.
\* The input file is [exists, readable, digraph, stmts]: a path that is a
\* directory exists and cannot be read.
graphSvgFromDotFile(g, file, exclude) ==
  IF ~file.exists THEN [g |-> g, error |-> "DOT file not found"]
  ELSE IF ~file.readable THEN [g |-> g, error |-> "EISDIR"]
  ELSE IF ~file.digraph
       THEN [g |-> g, error |-> "Invalid DOT format: no digraph found"]
  ELSE [g |-> loadGraphFromDot(g, file.stmts, exclude), error |-> ""]

----------------------------------------------------------------------------
(* JavaScript/TypeScript input (lib/parsers/parser.js, parserJsTs.js) *)

\* context.allFiles in insertion order, after getTargetFiles of every file:
\* imports is the list of {source, target} outside node_modules
AllFilesOf(imports) ==
  Distinct(Flatten([i \in 1..Len(imports) |->
                      <<imports[i].source, imports[i].target>>]))

\* processFilesCommon, "Create containers (folder) tree from each file paths"
RECURSIVE ProcessFilesAsContainers(_, _)
ProcessFilesAsContainers(st, files) ==
  IF files = <<>> \/ st.ns = <<>> THEN st
  ELSE ProcessFilesAsContainers(
         createContainerMappingBasedOnArray(st, rootNode,
                                            SplitPath(Head(files)), Head(files)),
         Tail(files))

\* processFilesCommon, "Create edges between files"
RECURSIVE ProcessFilesAsEdges(_, _)
ProcessFilesAsEdges(g, imports) ==
  IF imports = <<>> \/ g.ns = <<>> THEN g
  ELSE ProcessFilesAsEdges(
         upsertFileLinkByText(g, Head(imports).source, Head(imports).target),
         Tail(imports))

\* JsTsParser.generateDependenciesFromSourceFiles: processFilesCommon with
\* shouldMergeTSAndJS; no source file at all returns at once
generateDependenciesFromSourceFiles(g, noFiles, imports) ==
  IF noFiles THEN g
  ELSE LET made == ProcessFilesAsContainers([ns |-> g.ns, lf |-> g.lf],
                                            AllFilesOf(imports))
           linked == ProcessFilesAsEdges(
                       [ns |-> made.ns, lf |-> made.lf, es |-> g.es], imports)
       IN mergeMatchingTSAndJSFiles(linked, SeqToSet(AllFilesOf(imports)))

----------------------------------------------------------------------------
(* Flutter/Dart input (lib/parsers/parseFlutterDart.js) *)

Dev == <<"d", "e", "v">>
Direct == <<"d", "i", "r", "e", "c", "t">>
Transitive == <<"t", "r", "a", "n", "s", "i", "t", "i", "v", "e">>
Flutter == <<"f", "l", "u", "t", "t", "e", "r">>
Git == <<"g", "i", "t">>
PathSource == <<"p", "a", "t", "h">>
Sdk == <<"s", "d", "k">>

\* FlutterDartParser.transFromFlutterContainerName
transFromFlutterContainerName(module) ==
  IF module.kind = Dev THEN Dev
  ELSE IF module.source = Git \/ module.source = PathSource THEN Direct
  ELSE IF module.kind = Transitive THEN Transitive
  ELSE IF module.kind = Direct \/ module.source = Sdk THEN Direct
  ELSE module.source

\* FlutterDartParser.upsertInContainer on st = [ns, lf]
upsertInContainer(st, containerName, nodeName) ==
  LET found == getByText(st.ns, rootNode, containerName)
      container == IF found = 0 THEN upsert(st.ns, rootNode, containerName)
                   ELSE [ns |-> st.ns, ret |-> found]
      node == upsert(container.ns, container.ret, nodeName)
  IN setAsLeaf([ns |-> node.ns, lf |-> st.lf], node.ret, nodeName)

\* loadGraphFromFlutterDependencies, "Add all the container nodes"
RECURSIVE AddFlutterContainers(_, _)
AddFlutterContainers(st, packages) ==
  IF packages = <<>> \/ st.ns = <<>> THEN st
  ELSE LET module == Head(packages)
       IN AddFlutterContainers(
            IF module.name # Flutter
            THEN upsertInContainer(st, transFromFlutterContainerName(module),
                                   module.name)
            ELSE st,
            Tail(packages))

\* FlutterDartParser.ensureContainmentAndLinkTheseTwo
ensureContainmentAndLinkTheseTwo(g, containerName, sourceName, targetName) ==
  LET st == upsertInContainer([ns |-> g.ns, lf |-> g.lf], containerName,
                              sourceName)
  IN upsertFileLinkByText([ns |-> st.ns, lf |-> st.lf, es |-> g.es],
                          sourceName, targetName)

\* the dependencies of one module
RECURSIVE AddFlutterEdgesOf(_, _, _)
AddFlutterEdgesOf(g, module, dependencies) ==
  IF dependencies = <<>> \/ g.ns = <<>> THEN g
  ELSE AddFlutterEdgesOf(
         IF module.name # Flutter /\ Head(dependencies) # Flutter
         THEN ensureContainmentAndLinkTheseTwo(
                g, transFromFlutterContainerName(module), module.name,
                Head(dependencies))
         ELSE g,
         module, Tail(dependencies))

\* loadGraphFromFlutterDependencies, "Add all the edges"
RECURSIVE AddFlutterEdges(_, _)
AddFlutterEdges(g, packages) ==
  IF packages = <<>> \/ g.ns = <<>> THEN g
  ELSE AddFlutterEdges(
         AddFlutterEdgesOf(g, Head(packages), Head(packages).dependencies),
         Tail(packages))

\* the drop of the container of this name when the option is false
DropNamed(g, optionIsFalse, containerName) ==
  LET container == getByText(g.ns, rootNode, containerName)
  IN IF optionIsFalse /\ container # 0
     THEN dropContainerAndInternalNodesAndLinks(g, container)
     ELSE g

\* FlutterDartParser.loadGraphFromFlutterDependencies up to its call of
\* context.processTheGraph()
loadGraphFromFlutterDependencies(g, packages, externalsIsFalse, devIsFalse) ==
  LET made == AddFlutterContainers([ns |-> g.ns, lf |-> g.lf], packages)
      linked == AddFlutterEdges(
                  [ns |-> made.ns, lf |-> made.lf, es |-> g.es], packages)
  IN DropNamed(DropNamed(linked, externalsIsFalse, Transitive),
               devIsFalse, Dev)

----------------------------------------------------------------------------
(* Swift input (lib/parsers/parserSwift.js) *)

\* result.substring(0, i) + result.substring(i + k), i counted from 1
Cut(result, i, k) ==
  SubSeq(result, 1, i - 1) \o SubSeq(result, i + k, Len(result))

\* result[i], '' past either end
CharAt(result, i) == IF i \in 1..Len(result) THEN result[i] ELSE ""

\* result.indexOf('\n', i), 0 when there is none
IndexOfNewline(result, i) ==
  LET found == {k \in i..Len(result) : result[k] = "\n"}
  IN IF found = {} THEN 0 ELSE Min(found)

\* SwiftParser.removeCommentsAndStrings: the while loop from the state
\* st = [result, i, inString, inMultiLineString, inMultiLineComment, stringChar]
RECURSIVE RemoveLoop(_)
RemoveLoop(st) ==
  LET result == st.result
      i == st.i
      char == CharAt(result, i)
      nextChar == CharAt(result, i + 1)
      nextNextChar == CharAt(result, i + 2)
      Quote(c) == c = "\"" \/ c = "'"
  IN IF i > Len(result) THEN result
     ELSE IF st.inMultiLineComment
     THEN (IF char = "*" /\ nextChar = "/"
           THEN RemoveLoop([st EXCEPT !.result = Cut(result, i, 2),
                                      !.inMultiLineComment = FALSE])
           ELSE RemoveLoop([st EXCEPT !.result = Cut(result, i, 1)]))
     ELSE IF st.inMultiLineString
     THEN (IF char = "\"" /\ nextChar = "\"" /\ nextNextChar = "\""
           THEN RemoveLoop([st EXCEPT !.result = Cut(result, i, 3),
                                      !.inMultiLineString = FALSE])
           ELSE RemoveLoop([st EXCEPT !.result = Cut(result, i, 1)]))
     ELSE IF st.inString
     THEN (IF char = st.stringChar /\ CharAt(result, i - 1) # "\\"
           THEN RemoveLoop([st EXCEPT !.result = Cut(result, i, 1),
                                      !.inString = FALSE])
           ELSE IF char = "\\" /\ Quote(nextChar)
           THEN RemoveLoop([st EXCEPT !.result = Cut(result, i + 1, 1),
                                      !.i = i + 1])
           ELSE RemoveLoop([st EXCEPT !.result = Cut(result, i, 1)]))
     ELSE IF char = "/" /\ nextChar = "*"
     THEN RemoveLoop([st EXCEPT !.result = Cut(result, i, 2),
                                !.inMultiLineComment = TRUE])
     ELSE IF char = "/" /\ nextChar = "/"
     THEN LET endOfLine == IndexOfNewline(result, i)
          IN RemoveLoop([st EXCEPT !.result =
                           IF endOfLine # 0
                           THEN Cut(result, i, endOfLine - i)
                           ELSE SubSeq(result, 1, i - 1)])
     ELSE IF char = "\"" /\ nextChar = "\"" /\ nextNextChar = "\""
     THEN RemoveLoop([st EXCEPT !.result = Cut(result, i, 3),
                                !.inMultiLineString = TRUE])
     ELSE IF Quote(char) /\ CharAt(result, i - 1) # "\\"
     THEN RemoveLoop([st EXCEPT !.result = Cut(result, i, 1),
                                !.inString = TRUE, !.stringChar = char])
     ELSE RemoveLoop([st EXCEPT !.i = i + 1])

removeCommentsAndStrings(content) ==
  RemoveLoop([result |-> content, i |-> 1, inString |-> FALSE,
              inMultiLineString |-> FALSE, inMultiLineComment |-> FALSE,
              stringChar |-> ""])

----------------------------------------------------------------------------
(* Processing *)

processTheGraphWithoutTheEmptyCheck(ns, es, ls, json) ==
  LET pass == runLayeringForDependencyAnalysis(prepareEdges(ns, es))
  IN [es |-> pass.es, ls |-> pass.ls,
      log |-> <<"prepareEdges", "runLayeringForDependencyAnalysis">>
              \o (IF json THEN <<"generateJSON">> ELSE <<>>)
              \o <<"generateSVG">>]

\* GLADContext.processTheGraph on the graph: the edges, the Layers and the
\* steps it ran, in order
processTheGraph(ns, es, ls, json) ==
  IF Len(ns[rootNode].sub) = 0
  THEN [es |-> es, ls |-> ls, log |-> <<"No files found">>]
  ELSE LET pass == runLayeringForDependencyAnalysis(prepareEdges(ns, es))
       IN [es |-> pass.es, ls |-> pass.ls,
           log |-> <<"prepareEdges", "runLayeringForDependencyAnalysis">>
                   \o (IF json THEN <<"generateJSON">> ELSE <<>>)
                   \o <<"generateSVG">>]

----------------------------------------------------------------------------
(* Initial state: new Graph() constructs the root Container *)

\* main() has not parsed anything yet
NotStarted ==
  [pc |-> "start", kind |-> "none", input |-> <<>>, log |-> <<>>, exit |-> -1]

Init ==
  /\ nodes = <<NewContainer(0, Empty)>>
  /\ leafNodes = <<>>
  /\ edges = <<>>
  /\ allFiles = {}
  /\ layers = <<>>
  /\ last = [op |-> "new", ret |-> 0]
  /\ cli = NotStarted

----------------------------------------------------------------------------
(* Operations *)

TheGraph == [ns |-> nodes, lf |-> leafNodes, es |-> edges]

\* container.upsert(text) on any Container
Upsert(c, text) ==
  LET up == upsert(nodes, c, text)
  IN /\ nodes' = up.ns
     /\ last' = [op |-> "upsert", ret |-> up.ret]
     /\ UNCHANGED <<cli, leafNodes, edges, allFiles, layers>>

\* container.setAsLeaf(container.name), as its callers outside Container do
SetAsLeaf(c) ==
  LET st == setAsLeaf([ns |-> nodes, lf |-> leafNodes], c, nodes[c].name)
  IN /\ nodes' = st.ns
     /\ leafNodes' = st.lf
     /\ last' = [op |-> "setAsLeaf", ret |-> 0]
     /\ UNCHANGED <<cli, edges, allFiles, layers>>

\* one file of the input: allFiles.add, then processFileAsContainer
ProcessFileAsContainer(pathToFile) ==
  LET st == createContainerMappingBasedOnArray(
              [ns |-> nodes, lf |-> leafNodes], rootNode,
              SplitPath(pathToFile), pathToFile)
  IN /\ nodes' = st.ns
     /\ leafNodes' = st.lf
     /\ allFiles' = allFiles \cup {pathToFile}
     /\ last' = [op |-> "processFileAsContainer", ret |-> 0]
     /\ UNCHANGED <<cli, edges, layers>>

\* graph.upsertEdge(nodeSource, nodeTarget) on any two Containers
UpsertEdge(nodeSource, nodeTarget) ==
  LET g == upsertEdge(TheGraph, nodeSource, nodeTarget)
  IN /\ nodes' = g.ns
     /\ edges' = g.es
     /\ last' = [op |-> "upsertEdge", ret |-> 0]
     /\ UNCHANGED <<cli, leafNodes, allFiles, layers>>

\* processFilesAsEdges(pathToFile, importFilePath)
UpsertFileLinkByText(textA, textB) ==
  LET g == upsertFileLinkByText(TheGraph, textA, textB)
  IN /\ nodes' = g.ns
     /\ leafNodes' = g.lf
     /\ edges' = g.es
     /\ last' = [op |-> "upsertFileLinkByText", ret |-> 0]
     /\ UNCHANGED <<cli, allFiles, layers>>

\* graph.dropContainerAndInternalNodesAndLinks(containerNode)
DropContainer(containerNode) ==
  LET g == dropContainerAndInternalNodesAndLinks(TheGraph, containerNode)
  IN /\ nodes' = g.ns
     /\ edges' = g.es
     /\ last' = [op |-> "dropContainer", ret |-> containerNode]
     /\ UNCHANGED <<cli, leafNodes, allFiles, layers>>

\* JsTsParser.mergeMatchingTSAndJSFiles()
MergeMatchingTSAndJSFiles ==
  LET g == mergeMatchingTSAndJSFiles(TheGraph, allFiles)
  IN /\ nodes' = g.ns
     /\ edges' = g.es
     /\ last' = [op |-> "mergeMatchingTSAndJSFiles", ret |-> 0]
     /\ UNCHANGED <<cli, leafNodes, allFiles, layers>>

\* graph.prepareEdges()
PrepareEdges ==
  /\ edges' = prepareEdges(nodes, edges)
  /\ last' = [op |-> "prepareEdges", ret |-> 0]
  /\ UNCHANGED <<cli, nodes, leafNodes, allFiles, layers>>

\* one more layering pass over edges that prepareEdges has classified
RunLayering ==
  LET pass == runLayeringForDependencyAnalysis(edges)
  IN /\ last.op \in {"prepareEdges", "runLayering", "processTheGraph"}
     /\ edges' = pass.es
     /\ layers' = pass.ls
     /\ last' = [op |-> "runLayering", ret |-> 0]
     /\ UNCHANGED <<cli, nodes, leafNodes, allFiles>>

\* GLADContext.processTheGraph(): prepareEdges, then the layering pass
ProcessTheGraph ==
  LET done == processTheGraph(nodes, edges, layers, FALSE)
  IN /\ edges' = done.es
     /\ layers' = done.ls
     /\ last' = [op |-> IF done.log = <<"No files found">>
                        THEN "noFilesFound" ELSE "processTheGraph",
                 ret |-> 0]
     /\ UNCHANGED <<cli, nodes, leafNodes, allFiles>>

----------------------------------------------------------------------------
(* Specifications *)

ListsWithin(ns, n) ==
  \A c \in 1..Len(ns) :
    Len(ns[c].targetNodes) <= n /\ Len(ns[c].sourceNodes) <= n

\* the step stays within the bounds
Fits(maxNodes, maxList, maxEdges) ==
  /\ Len(nodes') <= maxNodes
  /\ Len(edges') <= maxEdges
  /\ ListsWithin(nodes', maxList)

\* tree construction alone
TreeUpsert ==
  \E c \in Ids, text \in Names : Upsert(c, text) /\ Fits(MaxTreeNodes, 0, 0)

TreeSetAsLeaf == \E c \in Ids : SetAsLeaf(c)

TreeProcessFile ==
  \E p \in TreePaths : ProcessFileAsContainer(p) /\ Fits(MaxTreeNodes, 0, 0)

NextTree == TreeUpsert \/ TreeSetAsLeaf \/ TreeProcessFile

SpecTree == Init /\ [][NextTree]_vars

\* the tree and the edges, as the API is used: upsert, upsertEdge, links
RollUpsert ==
  \E text \in RollNames :
    Upsert(rootNode, text) /\ Fits(MaxRollNodes, MaxList, MaxEdges)

RollProcessFile ==
  \E p \in RollPaths :
    ProcessFileAsContainer(p) /\ Fits(MaxRollNodes, MaxList, MaxEdges)

RollUpsertEdge ==
  \E s \in Ids \ {rootNode}, t \in Ids \ {rootNode} :
    UpsertEdge(s, t) /\ Fits(MaxRollNodes, MaxList, MaxEdges)

RollUpsertFileLink ==
  \E i \in RollImports :
    UpsertFileLinkByText(i[1], i[2]) /\ Fits(MaxRollNodes, MaxList, MaxEdges)

NextEdges == RollUpsert \/ RollProcessFile \/ RollUpsertEdge \/ RollUpsertFileLink

SpecEdges == Init /\ [][NextEdges]_vars

\* the same operations and the drop of a Container
RollDropContainer ==
  \E c \in getAllNodes(nodes) \ {rootNode} : DropContainer(c)

NextDrop == NextEdges \/ RollDropContainer

SpecDrop == Init /\ [][NextDrop]_vars

\* the graph under ingestion, merge and drop
NamesWithin(ns, n) == \A c \in 1..Len(ns) : Len(ns[c].name) <= n

DoProcessFile ==
  \E p \in Paths : ProcessFileAsContainer(p) /\ Fits(MaxNodes, MaxList, MaxEdges)

DoUpsertFileLink ==
  \E a \in Paths, b \in Paths :
    UpsertFileLinkByText(a, b) /\ Fits(MaxNodes, MaxList, MaxEdges)

DoDropContainer == \E c \in Ids \ {rootNode} : DropContainer(c)

DoMerge == MergeMatchingTSAndJSFiles /\ NamesWithin(nodes', MaxNameLen)

Next == DoProcessFile \/ DoUpsertFileLink \/ DoDropContainer \/ DoMerge

Spec == Init /\ [][Next]_vars

\* one run: the files, then the imports (processFilesCommon), then the
\* classification of the edges by prepareEdges and the layering pass
Ingesting == last.op \in {"new", "processFileAsContainer"}

Linking == Ingesting \/ last.op = "upsertFileLinkByText"

LayerProcessFile ==
  \E p \in LayerFiles :
    /\ Ingesting
    /\ ProcessFileAsContainer(p)
    /\ Fits(MaxNodes, MaxLayerEdges, MaxLayerEdges)

LayerUpsertFileLink ==
  \E import \in LayerImports :
    /\ Linking
    /\ UpsertFileLinkByText(import[1], import[2])
    /\ Fits(MaxNodes, MaxLayerEdges, MaxLayerEdges)

LayerPrepareEdges == Linking /\ PrepareEdges

LayerProcessTheGraph == Linking /\ ProcessTheGraph

NextLayering ==
  \/ LayerProcessFile
  \/ LayerUpsertFileLink
  \/ LayerPrepareEdges
  \/ RunLayering
  \/ LayerProcessTheGraph

SpecLayering == Init /\ [][NextLayering]_vars

\* one run of bin/glad.js
\* the digraph statements, the exclude options, the pubspec packages and the
\* imports that the runs are given
DotStatements ==
  {[t |-> "node", a |-> DB, b |-> Empty, quoted |-> TRUE, attrs |-> TRUE],
   [t |-> "node", a |-> SlashB, b |-> Empty, quoted |-> TRUE, attrs |-> TRUE],
   [t |-> "edge", a |-> SlashDB, b |-> SlashB, quoted |-> TRUE, attrs |-> FALSE],
   [t |-> "edge", a |-> SlashB, b |-> SlashDB, quoted |-> TRUE, attrs |-> TRUE],
   [t |-> "edge", a |-> B, b |-> D, quoted |-> FALSE, attrs |-> FALSE]}

DotFiles ==
  {[exists |-> FALSE, readable |-> FALSE, digraph |-> FALSE, stmts |-> <<>>],
   [exists |-> TRUE, readable |-> TRUE, digraph |-> FALSE, stmts |-> <<>>],
   [exists |-> TRUE, readable |-> TRUE, digraph |-> FALSE,
    stmts |-> <<[t |-> "edge", a |-> B, b |-> D, quoted |-> FALSE,
                 attrs |-> FALSE]>>]}
  \cup {[exists |-> TRUE, readable |-> TRUE, digraph |-> TRUE, stmts |-> s] :
          s \in SeqsUpTo(DotStatements, MaxStatements)}

\* what a Swift project is to graphSvgFromDotFile: no --input at all, a
\* directory, or a .swift file
SwiftInputs ==
  {[exists |-> FALSE, readable |-> FALSE, digraph |-> FALSE, stmts |-> <<>>],
   [exists |-> TRUE, readable |-> FALSE, digraph |-> FALSE, stmts |-> <<>>],
   [exists |-> TRUE, readable |-> TRUE, digraph |-> FALSE, stmts |-> <<>>]}

Excludes == {<<>>, <<<<"*", "*", "/", "b">>>>, <<<<"d", "/", "*">>>>}

FlutterModules ==
  {[name |-> <<"a">>, kind |-> Direct, source |-> Sdk,
    dependencies |-> <<B, Flutter>>],
   [name |-> B, kind |-> Transitive, source |-> <<"h">>,
    dependencies |-> << <<"a">> >>],
   [name |-> D, kind |-> Dev, source |-> <<"h">>, dependencies |-> <<B>>],
   [name |-> Flutter, kind |-> Direct, source |-> Sdk, dependencies |-> <<>>]}

JsImports ==
  {[source |-> DAJs, target |-> DATs], [source |-> DATs, target |-> DAJs],
   [source |-> B, target |-> DAJs], [source |-> DATs, target |-> B]}

\* main() up to a thrown Error: the process ends with exit code 1
Thrown(kind, input) ==
  [pc |-> "exited", kind |-> kind, input |-> input, log |-> <<>>, exit |-> 1]

\* main(), DOT file input: glad.parseDot.graphSvgFromDotFile()
MainDot ==
  \E file \in DotFiles, exclude \in Excludes, json \in BOOLEAN :
    LET input == [file |-> file, exclude |-> exclude, json |-> json]
        parsed == graphSvgFromDotFile(TheGraph, file, exclude)
    IN /\ cli.pc = "start"
       /\ nodes' = parsed.g.ns
       /\ leafNodes' = parsed.g.lf
       /\ edges' = parsed.g.es
       /\ cli' = IF parsed.error # ""
                 THEN Thrown("dot", input)
                 ELSE [cli EXCEPT !.pc = "parsed", !.kind = "dot",
                                  !.input = input]
       /\ last' = [op |-> "graphSvgFromDotFile", ret |-> 0]
       /\ UNCHANGED <<allFiles, layers>>

\* main(), Swift project: glad.parseDot.graphSvgFromDotFile() on its path
MainSwift ==
  \E file \in SwiftInputs, json \in BOOLEAN :
    LET input == [file |-> file, exclude |-> <<>>, json |-> json]
        parsed == graphSvgFromDotFile(TheGraph, file, <<>>)
    IN /\ cli.pc = "start"
       /\ nodes' = parsed.g.ns
       /\ leafNodes' = parsed.g.lf
       /\ edges' = parsed.g.es
       /\ cli' = IF parsed.error # ""
                 THEN Thrown("swift", input)
                 ELSE [cli EXCEPT !.pc = "parsed", !.kind = "swift",
                                  !.input = input]
       /\ last' = [op |-> "graphSvgFromDotFile", ret |-> 0]
       /\ UNCHANGED <<allFiles, layers>>

\* main(), Dart project: await glad.flutterDartParser.graphSvgFromFlutterDart(),
\* which ends with context.processTheGraph()
MainFlutterDart ==
  \E packages \in SeqsUpTo(FlutterModules, MaxPackages),
     externalsIsFalse \in BOOLEAN, devIsFalse \in BOOLEAN,
     execFails \in BOOLEAN, json \in BOOLEAN :
    LET input == [packages |-> packages, externalsIsFalse |-> externalsIsFalse,
                  devIsFalse |-> devIsFalse, execFails |-> execFails,
                  json |-> json]
        loaded == loadGraphFromFlutterDependencies(
                    TheGraph, packages, externalsIsFalse, devIsFalse)
        done == processTheGraph(loaded.ns, loaded.es, layers, json)
    IN /\ cli.pc = "start"
       /\ IF execFails
          THEN /\ cli' = Thrown("flutter", input)
               /\ UNCHANGED <<nodes, leafNodes, edges, layers>>
          ELSE /\ nodes' = loaded.ns
               /\ leafNodes' = loaded.lf
               /\ edges' = done.es
               /\ layers' = done.ls
               /\ cli' = [cli EXCEPT !.pc = "parsed", !.kind = "flutter",
                                     !.input = input, !.log = @ \o done.log]
       /\ last' = [op |-> "graphSvgFromFlutterDart", ret |-> 0]
       /\ UNCHANGED allFiles

\* main(), NodeJS project: glad.jsTsParser.generateDependenciesFromSourceFiles()
MainJsTs ==
  \E imports \in SeqsUpTo(JsImports, MaxImports), noFiles \in BOOLEAN,
     json \in BOOLEAN :
    LET input == [imports |-> imports, noFiles |-> noFiles, json |-> json]
        parsed == generateDependenciesFromSourceFiles(TheGraph, noFiles, imports)
    IN /\ cli.pc = "start"
       /\ noFiles => imports = <<>>
       /\ nodes' = parsed.ns
       /\ leafNodes' = parsed.lf
       /\ edges' = parsed.es
       /\ allFiles' = IF noFiles THEN allFiles
                      ELSE allFiles \cup SeqToSet(AllFilesOf(imports))
       /\ cli' = [cli EXCEPT !.pc = "parsed", !.kind = "jsts", !.input = input]
       /\ last' = [op |-> "generateDependenciesFromSourceFiles", ret |-> 0]
       /\ UNCHANGED layers

\* main(): glad.context.processTheGraph()
MainProcessTheGraph ==
  LET done == processTheGraph(nodes, edges, layers, cli.input.json)
  IN /\ cli.pc = "parsed"
     /\ edges' = done.es
     /\ layers' = done.ls
     /\ cli' = [cli EXCEPT !.pc = "processed", !.log = @ \o done.log]
     /\ last' = [op |-> IF done.log = <<"No files found">>
                        THEN "noFilesFound" ELSE "processTheGraph",
                 ret |-> 0]
     /\ UNCHANGED <<nodes, leafNodes, allFiles>>

countCircularOrUpDependencies(es) ==
  Cardinality({i \in 1..Len(es) : es[i].isCircular \/ es[i].isUpDependency})

\* Graph.getCircularDependenciesCount
getCircularDependenciesCount(es) ==
  Cardinality({i \in 1..Len(es) : es[i].isCircular})

\* Graph.getUpDependenciesCount
getUpDependenciesCount(es) ==
  Cardinality({i \in 1..Len(es) : es[i].isUpDependency})

\* main(): the counts, the report and process.exit(100)
MainExit ==
  /\ cli.pc = "processed"
  /\ cli' = [cli EXCEPT !.pc = "exited",
                        !.exit = IF getCircularDependenciesCount(edges) > 0
                                 THEN 100 ELSE 0]
  /\ last' = [op |-> "exit", ret |-> 0]
  /\ UNCHANGED <<nodes, leafNodes, edges, allFiles, layers>>

NextCli ==
  \/ MainDot \/ MainSwift \/ MainFlutterDart \/ MainJsTs
  \/ MainProcessTheGraph \/ MainExit

SpecCli == Init /\ [][NextCli]_vars

\* matchesExcludePattern alone: one path against one pattern
RECURSIVE PathsOf(_)
PathsOf(n) ==
  LET segments == {<<"b">>, <<"d">>, <<"b", "d">>}
  IN IF n <= 1 THEN segments
     ELSE PathsOf(n - 1)
          \cup {p \o <<"/">> \o seg : p \in PathsOf(n - 1), seg \in segments}

ExcludePaths == PathsOf(MaxSegments)

ExcludePatterns ==
  {<<"*">>, <<"*", "*">>, <<"?">>, <<"b">>, <<"d", "/", "b">>,
   <<"d", "/", "*">>, <<"*", "/", "b">>, <<"*", "d">>, <<"b", "*">>,
   <<"*", "*", "/", "b">>, <<"d", "/", "*", "*">>, <<"*", "*", "/", "d", "/", "*", "*">>,
   <<"?", "/", "b">>, <<"b", "?">>, <<"d", "?", "b">>, <<"?", "?">>}

InitExclude ==
  /\ nodes = <<NewContainer(0, Empty)>>
  /\ leafNodes = <<>>
  /\ edges = <<>>
  /\ allFiles = {}
  /\ layers = <<>>
  /\ last = [op |-> "new", ret |-> 0]
  /\ \E filePath \in ExcludePaths, pattern \in ExcludePatterns :
       cli = [NotStarted EXCEPT !.kind = "exclude",
                                !.input = [filePath |-> filePath,
                                           pattern |-> pattern]]

\* matchesExcludePattern(filePath, [pattern]); ret is 1 for true
MatchExclude ==
  /\ cli.kind = "exclude"
  /\ cli.pc = "start"
  /\ cli' = [cli EXCEPT !.pc = "matched"]
  /\ last' = [op |-> "matchesExcludePattern",
              ret |-> IF matchesExcludePattern(cli.input.filePath,
                                               <<cli.input.pattern>>)
                      THEN 1 ELSE 0]
  /\ UNCHANGED <<nodes, leafNodes, edges, allFiles, layers>>

SpecExclude == InitExclude /\ [][MatchExclude]_vars

\* removeCommentsAndStrings alone: one source text
SwiftCharacters == {"a", "\"", "'", "\\", "/", "*", "\n"}

SwiftContents == SeqsUpTo(SwiftCharacters, MaxContent)

InitRemove ==
  /\ nodes = <<NewContainer(0, Empty)>>
  /\ leafNodes = <<>>
  /\ edges = <<>>
  /\ allFiles = {}
  /\ layers = <<>>
  /\ last = [op |-> "new", ret |-> 0]
  /\ \E content \in SwiftContents :
       cli = [NotStarted EXCEPT !.kind = "swiftSource", !.input = content]

\* removeCommentsAndStrings(content); the result is kept in log
RemoveCommentsAndStrings ==
  /\ cli.kind = "swiftSource"
  /\ cli.pc = "start"
  /\ cli' = [cli EXCEPT !.pc = "removed",
                        !.log = removeCommentsAndStrings(cli.input)]
  /\ last' = [op |-> "removeCommentsAndStrings", ret |-> 0]
  /\ UNCHANGED <<nodes, leafNodes, edges, allFiles, layers>>

SpecRemove == InitRemove /\ [][RemoveCommentsAndStrings]_vars

\* the source files of a project with folders inside folders
FolderPaths ==
  LET segments == {B, D, AJs}
      two == {p \o <<"/">> \o q : p \in segments, q \in segments}
  IN two \cup {p \o <<"/">> \o q : p \in two, q \in segments}

FolderProcessFile ==
  \E p \in FolderPaths : ProcessFileAsContainer(p) /\ Fits(MaxFolderNodes, 0, 0)

SpecFolders == Init /\ [][FolderProcessFile]_vars

\* Graph.assignLayers of the earlier lib/models/graph.js, one step at a time.
\* cli.input is the Array `nodes`, cli.log holds visited, visiting, the
\* pending processNode calls (stack) and the index i of the running forEach;
\* `layers` is the Map that is returned
AssignFiles == <<AJs, ATs, B>>

AssignArena == ProcessFilesAsContainers([ns |-> <<NewContainer(0, Empty)>>,
                                         lf |-> <<>>], AssignFiles)

AssignLeaves == {AssignArena.lf[f] : f \in SeqToSet(AssignFiles)}

\* the edge lists that prepareEdges hands over: sorted, isCircular set
AssignEdgeLists ==
  LET pairs == AssignLeaves \X AssignLeaves
      lists == {l \in SeqsUpTo(pairs, MaxLayerEdges) :
                  \A i \in 1..Len(l), j \in 1..Len(l) : i # j => l[i] # l[j]}
  IN {prepareEdges(AssignArena.ns,
                   [i \in 1..Len(l) |-> NewEdge(l[i][1], l[i][2])]) : l \in lists}

InitAssign ==
  /\ nodes = AssignArena.ns
  /\ leafNodes = AssignArena.lf
  /\ edges \in AssignEdgeLists
  /\ allFiles = SeqToSet(AssignFiles)
  /\ layers = <<>>
  /\ last = [op |-> "prepareEdges", ret |-> <<>>]
  /\ cli = [pc |-> "start", kind |-> "assignLayers", input |-> <<>>,
            log |-> <<>>, exit |-> -1]

\* Array.from(dataSet) of getAllNodesInEdges: first occurrence order
NodesInEdgesInOrder(es) ==
  LET added == [k \in 1..(2 * Len(es)) |->
                  IF k % 2 = 1 THEN es[(k + 1) \div 2].source
                  ELSE es[k \div 2].target]
      firsts == {k \in DOMAIN added : \A j \in 1..(k - 1) : added[j] # added[k]}
      Nth(i) == CHOOSE k \in firsts : Cardinality({j \in firsts : j < k}) = i - 1
  IN [i \in 1..Cardinality(firsts) |-> added[Nth(i)]]

\* this.edges.filter(edge => edge.source === node).map(edge => edge.target)
Dependencies(es, node) ==
  LET outgoing == SelectSeq(es, LAMBDA e : e.source = node)
  IN [i \in 1..Len(outgoing) |-> outgoing[i].target]

\* the call processNode(node, layer): returns at once on a visited or a
\* visiting node, otherwise marks the node and starts on its dependencies
EnterProcessNode(log, node, layer) ==
  IF node \in log.visited THEN log
  ELSE IF node \in log.visiting THEN log
  ELSE [log EXCEPT
          !.visiting = @ \cup {node},
          !.stack = Append(@, [node |-> node, layer |-> layer,
                               dependencies |-> Dependencies(edges, node),
                               k |-> 1])]

\* a second forEach that finds nothing left to process
NoNodeRemains(log, node) == FALSE

\* the filter of the second forEach: the nodes not reached by the first
NotVisited(log, node) == node \notin log.visited

Running == cli.kind = "assignLayers" /\ cli.pc \in {"first", "second"}

TopFrame == cli.log.stack[Len(cli.log.stack)]

\* const layers, visited, visiting, nodes
AssignLayersCall ==
  /\ cli.kind = "assignLayers" /\ cli.pc = "start"
  /\ cli' = [cli EXCEPT !.pc = "first",
                        !.input = NodesInEdgesInOrder(edges),
                        !.log = [visited |-> {}, visiting |-> {},
                                 stack |-> <<>>, i |-> 1]]
  /\ layers' = <<>>
  /\ last' = [op |-> "assignLayers", ret |-> <<>>]
  /\ UNCHANGED <<nodes, leafNodes, edges, allFiles>>

\* "Start with nodes that have no incoming dependencies"
FirstForEach ==
  /\ Running /\ cli.pc = "first" /\ cli.log.stack = <<>>
  /\ LET i == cli.log.i
         advanced == [cli.log EXCEPT !.i = i + 1]
     IN cli' = IF i > Len(cli.input)
               THEN [cli EXCEPT !.pc = "second", !.log.i = 1]
               ELSE IF \E e \in SeqToSet(edges) : e.target = cli.input[i]
               THEN [cli EXCEPT !.log = advanced]
               ELSE [cli EXCEPT !.log = EnterProcessNode(advanced, cli.input[i], 0)]
  /\ UNCHANGED <<nodes, leafNodes, edges, allFiles, layers, last>>

\* "Process remaining nodes", then return layers
SecondForEach ==
  /\ Running /\ cli.pc = "second" /\ cli.log.stack = <<>>
  /\ LET i == cli.log.i
         advanced == [cli.log EXCEPT !.i = i + 1]
     IN IF i > Len(cli.input)
        THEN /\ cli' = [cli EXCEPT !.pc = "done"]
             /\ last' = [op |-> "assignLayers", ret |-> layers]
        ELSE /\ cli' = IF NotVisited(cli.log, cli.input[i])
                       THEN [cli EXCEPT
                               !.log = EnterProcessNode(advanced, cli.input[i], 0)]
                       ELSE [cli EXCEPT !.log = advanced]
             /\ UNCHANGED last
  /\ UNCHANGED <<nodes, leafNodes, edges, allFiles, layers>>

\* dependencies.forEach(dep => processNode(dep, layer))
ProcessDependency ==
  /\ Running /\ cli.log.stack # <<>>
  /\ TopFrame.k <= Len(TopFrame.dependencies)
  /\ LET top == Len(cli.log.stack)
         stepped == [cli.log EXCEPT !.stack[top].k = @ + 1]
     IN cli' = [cli EXCEPT
                  !.log = EnterProcessNode(stepped,
                                           TopFrame.dependencies[TopFrame.k],
                                           TopFrame.layer)]
  /\ UNCHANGED <<nodes, leafNodes, edges, allFiles, layers, last>>

\* the end of processNode: visiting.delete, visited.add, layers.set
ProcessNodeReturn ==
  /\ Running /\ cli.log.stack # <<>>
  /\ TopFrame.k > Len(TopFrame.dependencies)
  /\ LET node == TopFrame.node
         layer == TopFrame.layer
     IN /\ cli' = [cli EXCEPT
                     !.log.visiting = @ \ {node},
                     !.log.visited = @ \cup {node},
                     !.log.stack = SubSeq(@, 1, Len(@) - 1)]
        /\ layers' = IF node \notin DOMAIN layers THEN MapSet(layers, node, layer)
                     ELSE IF layer > layers[node] THEN MapSet(layers, node, layer)
                     ELSE layers
  /\ UNCHANGED <<nodes, leafNodes, edges, allFiles, last>>

NextAssign ==
  \/ AssignLayersCall
  \/ FirstForEach
  \/ SecondForEach
  \/ ProcessDependency
  \/ ProcessNodeReturn

\* the call runs to its end: nothing else runs in between
SpecAssign == InitAssign /\ [][NextAssign]_vars /\ WF_vars(NextAssign)

\* the edge count cache of the Graph.  In this specification `layers`
\* holds the two cache fields of the Graph, _cacheInvalidated and
\* _edgeCountCache, and last.args the two lists of the last query
\* Container.getFlatterList: the nodes and the leaves under them, once each
getFlatterList(ns, listOfNodes) ==
  Distinct(listOfNodes
           \o Flatten([i \in 1..Len(listOfNodes) |->
                         getFlatListOfNodes(ns, listOfNodes[i])]))

\* Edges.getTotalMatchingTargetForThisSource: the edges from node into the list
getTotalMatchingTargetForThisSource(es, node, listOfNodes) ==
  Cardinality({i \in 1..Len(es) :
                 es[i].source = node /\ es[i].target \in SeqToSet(listOfNodes)})

RECURSIVE SumOver(_, _, _)
SumOver(es, from, to) ==
  IF from = <<>> THEN 0
  ELSE getTotalMatchingTargetForThisSource(es, Head(from), to)
       + SumOver(es, Tail(from), to)

\* Graph.getOutIn
getOutIn(g, ListOfNodesA, ListOfNodesB) ==
  LET flatA == getFlatterList(g.ns, ListOfNodesA)
      flatB == getFlatterList(g.ns, ListOfNodesB)
      totalPointerAtoB == SumOver(g.es, flatA, flatB)
      totalPointerBtoA == SumOver(g.es, flatB, flatA)
      weight == IF totalPointerBtoA = 0 /\ totalPointerAtoB > 0
                THEN 1000000 + totalPointerBtoA
                ELSE (totalPointerAtoB * 100000) + (totalPointerBtoA * (-1000))
  IN [in |-> totalPointerBtoA, out |-> totalPointerAtoB, weight |-> weight]

\* Graph._getNodeListKey: the ids of the flatter list, sorted, joined by ','
\* (ids n1 .. n9 sort as their numbers do)
getNodeListKey(ns, listOfNodes) ==
  LET ids == SeqToSet(getFlatterList(ns, listOfNodes))
      Nth(i) == CHOOSE k \in ids : Cardinality({j \in ids : j < k}) = i - 1
  IN [i \in 1..Cardinality(ids) |-> Nth(i)]

\* Graph.getOutInCached on cache = [invalidated, entries]: the cache after
\* the call and the value returned
getOutInCached(g, cache, ListOfNodesA, ListOfNodesB) ==
  LET rebuilt == IF cache.invalidated
                 THEN [invalidated |-> FALSE, entries |-> <<>>]
                 ELSE cache
      cacheKey == <<getNodeListKey(g.ns, ListOfNodesA),
                    getNodeListKey(g.ns, ListOfNodesB)>>
  IN IF cacheKey \in DOMAIN rebuilt.entries
     THEN [cache |-> rebuilt, ret |-> rebuilt.entries[cacheKey]]
     ELSE LET result == getOutIn(g, ListOfNodesA, ListOfNodesB)
          IN [cache |-> [rebuilt EXCEPT
                           !.entries = MapSet(@, cacheKey, result)],
              ret |-> result]

InitCache ==
  /\ nodes = <<NewContainer(0, Empty)>>
  /\ leafNodes = <<>>
  /\ edges = <<>>
  /\ allFiles = {}
  /\ layers = [invalidated |-> TRUE, entries |-> <<>>]
  /\ last = [op |-> "new", ret |-> 0, args |-> <<>>]
  /\ cli = NotStarted

\* the leaves of the files processed so far
FileLeaves == {getLeafNodeByUserData(leafNodes, p) : p \in allFiles}

CacheProcessFile ==
  \E p \in Paths : ProcessFileAsContainer(p) /\ Fits(MaxNodes, MaxList, MaxEdges)

\* graph.upsertEdge with its "Invalidate cache when edges change"
CacheUpsertEdge ==
  \E s \in FileLeaves, t \in FileLeaves :
    LET g == upsertEdge(TheGraph, s, t)
    IN /\ nodes' = g.ns
       /\ edges' = g.es
       /\ layers' = [layers EXCEPT !.invalidated = TRUE]
       /\ last' = [op |-> "upsertEdge", ret |-> 0]
       /\ UNCHANGED <<cli, leafNodes, allFiles>>
       /\ Fits(MaxNodes, MaxList, MaxEdges)

CacheDropContainer ==
  \E c \in getAllNodes(nodes) \ {rootNode} : DropContainer(c)

CacheMerge == MergeMatchingTSAndJSFiles /\ NamesWithin(nodes', MaxNameLen)

\* the lists that the layout compares: one file each
CacheGetOutInCached ==
  \E a \in FileLeaves : \E b \in FileLeaves \ {a} :
    LET called == getOutInCached(TheGraph, layers, <<a>>, <<b>>)
    IN /\ layers' = called.cache
       /\ last' = [op |-> "getOutInCached", ret |-> called.ret,
                   args |-> <<<<a>>, <<b>>>>]
       /\ UNCHANGED <<cli, nodes, leafNodes, edges, allFiles>>

NextCache ==
  \/ CacheProcessFile
  \/ CacheUpsertEdge
  \/ CacheDropContainer
  \/ CacheMerge
  \/ CacheGetOutInCached

SpecCache == InitCache /\ [][NextCache]_vars

\* two Graphs in one process.  `nodes` holds the Containers of both, with
\* the rootNode of the first at 1 and of the second at 2; leafNodes is the
\* one Map of the module container.js; edges[k] is the Edges of Graph k and
\* last.graph the Graph that the last operation was called on
Graphs == {1, 2}

GraphOf(k) == [ns |-> nodes, lf |-> leafNodes, es |-> edges[k]]

\* new Graph() twice
InitTwoGraphs ==
  /\ nodes = <<NewContainer(0, Empty), NewContainer(0, Empty)>>
  /\ leafNodes = <<>>
  /\ edges = <<<<>>, <<>>>>
  /\ allFiles = {}
  /\ layers = <<>>
  /\ last = [op |-> "new", ret |-> 0, graph |-> 2]
  /\ cli = NotStarted

FitsTwoGraphs ==
  /\ Len(nodes') <= MaxProcessNodes
  /\ \A k \in Graphs : Len(edges'[k]) <= MaxEdges
  /\ ListsWithin(nodes', MaxList)

\* processFileAsContainer of a parser that holds Graph k: upsert along the
\* path, setAsLeaf at its end
TwoProcessFile ==
  \E k \in Graphs, p \in RollPaths :
    LET st == createContainerMappingBasedOnArray(
                [ns |-> nodes, lf |-> leafNodes], k, SplitPath(p), p)
    IN /\ nodes' = st.ns
       /\ leafNodes' = st.lf
       /\ last' = [op |-> "processFileAsContainer", ret |-> 0, graph |-> k]
       /\ UNCHANGED <<cli, edges, allFiles, layers>>
       /\ FitsTwoGraphs

TwoUpsertFileLink ==
  \E k \in Graphs, i \in RollImports :
    LET g == upsertFileLinkByText(GraphOf(k), i[1], i[2])
    IN /\ nodes' = g.ns
       /\ leafNodes' = g.lf
       /\ edges' = [edges EXCEPT ![k] = g.es]
       /\ last' = [op |-> "upsertFileLinkByText", ret |-> 0, graph |-> k]
       /\ UNCHANGED <<cli, allFiles, layers>>
       /\ FitsTwoGraphs

\* upsertEdge of Graph k on two Containers of its own tree
TwoUpsertEdge ==
  \E k \in Graphs :
    \E s \in cumulateNodeInDataSet(nodes, k) \ {k},
       t \in cumulateNodeInDataSet(nodes, k) \ {k} :
      LET g == upsertEdge(GraphOf(k), s, t)
      IN /\ nodes' = g.ns
         /\ edges' = [edges EXCEPT ![k] = g.es]
         /\ last' = [op |-> "upsertEdge", ret |-> 0, graph |-> k]
         /\ UNCHANGED <<cli, leafNodes, allFiles, layers>>
         /\ FitsTwoGraphs

NextTwoGraphs == TwoProcessFile \/ TwoUpsertFileLink \/ TwoUpsertEdge

SpecTwoGraphs == InitTwoGraphs /\ [][NextTwoGraphs]_vars

\* the files, their links, the drop of a file and the merge, the drop being
\* called on the leaf of a processed file that is in the tree
MergeDropContainer ==
  \E c \in FileLeaves \cap getAllNodes(nodes) : DropContainer(c)

NextMerge == DoProcessFile \/ DoUpsertFileLink \/ MergeDropContainer \/ DoMerge

SpecMerge == Init /\ [][NextMerge]_vars

----------------------------------------------------------------------------
(* Properties *)

\* the Container and its ancestors, by the parent references
RECURSIVE SelfAndAncestors(_)
SelfAndAncestors(c) ==
  IF nodes[c].parent = 0 THEN {c} ELSE {c} \cup SelfAndAncestors(nodes[c].parent)

Classified == last.op \in {"prepareEdges", "runLayering", "processTheGraph"}

Layered == last.op \in {"runLayering", "processTheGraph"}

HasEdge(a, b) == \E i \in 1..Len(edges) : edges[i].source = a /\ edges[i].target = b

\* depth of a node: the index of the layer that contains it
DepthOf(n) == CHOOSE d \in 0..(Len(layers) - 1) : n \in layers[d + 1].nodes

\* C1: after prepareEdges an edge is circular iff its source and target are
\* different containers and the edge from its target to its source exists
C1_CircularIffReverseEdge ==
  Classified =>
    \A i \in 1..Len(edges) :
      edges[i].isCircular <=>
        /\ edges[i].source # edges[i].target
        /\ HasEdge(edges[i].target, edges[i].source)

C1_Witness ==
  /\ last.op = "prepareEdges"
  /\ \E i \in 1..Len(edges) : edges[i].isCircular
  /\ \E i \in 1..Len(edges) : edges[i].source = edges[i].target

\* C2: after the layering pass a non-circular edge is an up-dependency iff
\* the depth of its source is at least the depth of its target
C2_UpIffSourceNotAbove ==
  Layered =>
    \A i \in 1..Len(edges) :
      ~edges[i].isCircular =>
        (edges[i].isUpDependency <=>
           DepthOf(edges[i].source) >= DepthOf(edges[i].target))

C2_Witness ==
  /\ last.op = "processTheGraph"
  /\ \E i \in 1..Len(edges) : ~edges[i].isCircular /\ edges[i].isUpDependency
  /\ \E i \in 1..Len(edges) : ~edges[i].isCircular /\ ~edges[i].isUpDependency

\* C3: no edge is both circular and an up-dependency, in any state of a run
\* of prepareEdges and layering passes
C3_CircularNeverUp ==
  \A i \in 1..Len(edges) : ~(edges[i].isCircular /\ edges[i].isUpDependency)

C3_Witness ==
  /\ last.op = "runLayering"
  /\ \E i \in 1..Len(edges) : edges[i].isCircular
  /\ \E i \in 1..Len(edges) : edges[i].isUpDependency

\* every node of an edge reaches every other one along the edges
RECURSIVE ReachedAlongEdges(_)
ReachedAlongEdges(S) ==
  LET more == S \cup {edges[i].target : i \in {j \in 1..Len(edges) : edges[j].source \in S}}
  IN IF more = S THEN S ELSE ReachedAlongEdges(more)

OneComponent ==
  \A a \in getAllNodesInEdges(edges) :
    getAllNodesInEdges(edges) \subseteq
      ReachedAlongEdges({edges[i].target : i \in {j \in 1..Len(edges) : edges[j].source = a}})

AllDepthsZeroAndNoUp ==
  /\ \A n \in getAllNodesInEdges(edges) : DepthOf(n) = 0
  /\ \A i \in 1..Len(edges) : ~edges[i].isUpDependency

\* C4 as stated: when every node lies in one strongly connected component,
\* whatever the length of the cycles, all depths are 0 and no edge is up
C4_AnyCycleNoUp ==
  (Layered /\ edges # <<>> /\ OneComponent) => AllDepthsZeroAndNoUp

AllMutualPairs ==
  \A i \in 1..Len(edges) :
    /\ edges[i].source # edges[i].target
    /\ HasEdge(edges[i].target, edges[i].source)

\* C4 amended: when every edge is one of a mutual pair between two different
\* nodes, the layering pass gives every node depth 0 and marks no edge up
C4_MutualPairsNoUp ==
  (Layered /\ edges # <<>> /\ AllMutualPairs) => AllDepthsZeroAndNoUp

C4_Witness ==
  /\ last.op = "processTheGraph"
  /\ edges # <<>>
  /\ AllMutualPairs

\* C5: the target of every edge is in targetNodes of the source and of all
\* its ancestors, the source is in sourceNodes of the target and of all its
\* ancestors
C5_RolledUpToTheRoot ==
  \A i \in 1..Len(edges) :
    /\ \A a \in SelfAndAncestors(edges[i].source) :
         edges[i].target \in SeqToSet(nodes[a].targetNodes)
    /\ \A a \in SelfAndAncestors(edges[i].target) :
         edges[i].source \in SeqToSet(nodes[a].sourceNodes)

C5_Witness ==
  /\ last.op = "upsertEdge"
  /\ \E i \in 1..Len(edges) :
       /\ Cardinality(SelfAndAncestors(edges[i].source)) = 3
       /\ Cardinality(SelfAndAncestors(edges[i].target)) = 2

\* C6: graph.edges never holds two Edge objects with the same ordered pair
C6_OneEdgePerPair ==
  \A i \in 1..Len(edges), j \in 1..Len(edges) :
    (edges[i].source = edges[j].source /\ edges[i].target = edges[j].target)
      => i = j

\* C7: upsertEdge with the (source, target) of an edge that exists changes
\* neither graph.edges nor any Container
C7_UpsertEdgeIdempotent ==
  [][\A s \in Ids, t \in Ids :
       (HasEdge(s, t) /\ UpsertEdge(s, t)) => (nodes' = nodes /\ edges' = edges)]_vars

\* the Containers of the tree, by the parent references
InTree(c) == rootNode \in SelfAndAncestors(c)

HasLeafDescendant(c) ==
  \E m \in Ids : m # c /\ nodes[m].isLeaf /\ InTree(m) /\ c \in SelfAndAncestors(m)

NoSiblingsShareAName ==
  \A c \in Ids : \A i \in 1..Len(nodes[c].sub), j \in 1..Len(nodes[c].sub) :
    nodes[nodes[c].sub[i]].name = nodes[nodes[c].sub[j]].name => i = j

\* C9: upsert of the name of a child returns that child and adds nothing,
\* and no two children of one parent share a name
C9_UpsertGetOrCreate ==
  /\ []NoSiblingsShareAName
  /\ [][\A c \in Ids, text \in Names :
          \A k \in SeqToSet(nodes[c].sub) :
            (nodes[k].name = text /\ Upsert(c, text))
              => (nodes' = nodes /\ last'.ret = k)]_vars

C9_Witness ==
  /\ last.op = "upsert"
  /\ last.ret < Len(nodes)
  /\ \E c \in Ids : Len(nodes[c].sub) >= 2

\* C10: a Container with isLeaf = true has an empty sub list
C10_LeafHasNoChildren ==
  \A c \in Ids : nodes[c].isLeaf => nodes[c].sub = <<>>

\* C11: a payload that is registered stays registered to the Container that
\* registered it first, whatever setAsLeaf calls follow
C11_FirstWriterWins ==
  [][\A p \in DOMAIN leafNodes :
       getLeafNodeByUserData(leafNodes', p) = leafNodes[p]]_vars

\* C12: a run that has ended has exit code 100 exactly when some edge of
\* the graph is flagged circular, whatever the up-dependencies and orphans
C12_Exit100IffCircular ==
  cli.pc = "exited" =>
    (cli.exit = 100 <=> \E i \in 1..Len(edges) : edges[i].isCircular)

C12_Witness ==
  /\ cli.pc = "exited"
  /\ cli.exit = 100
  /\ getUpDependenciesCount(edges) > 0

\* a leaf Container of the tree that carries a payload
LeafPayloads ==
  {nodes[c].data : c \in {m \in getAllNodes(nodes) :
                            nodes[m].isLeaf /\ ~stringIsEmpty(nodes[m].data)}}

\* C13: the "nodes" of Graph.serialize() are the sorted, duplicate-free list
\* of the non-empty payloads of the leaf Containers, and nothing else
C13_NodesAreLeafPayloads ==
  serialize(nodes, edges).nodes = SortStrings(LeafPayloads)

\* C14: the parsed output of Graph.serialize() has as many nodes as
\* getAllNodes() returns and as many edges as the graph holds
C14_CountsMatch ==
  LET parsed == serialize(nodes, edges)
  IN /\ Len(parsed.nodes) = Cardinality(getAllNodes(nodes))
     /\ Len(parsed.edges) = Len(edges)

\* C15: a drop of the Container c leaves no edge with an end in the subtree
\* that c had, leaves c out of the tree under the root, and keeps, in their
\* order, the edges that had both ends outside that subtree
C15_DropRemovesSubtreeEdges ==
  [][last'.op = "dropContainer" =>
       LET c == last'.ret
           subtree == cumulateNodeInDataSet(nodes, c)
           Outside(e) == e.source \notin subtree /\ e.target \notin subtree
       IN /\ \A i \in 1..Len(edges') : Outside(edges'[i])
          /\ c \notin getAllNodes(nodes')
          /\ edges' = SelectSeq(edges, Outside)]_vars

\* the steps that a processTheGraph which found files logs
PipelineSteps ==
  {"prepareEdges", "runLayeringForDependencyAnalysis", "generateJSON",
   "generateSVG"}

\* C16: a processTheGraph that finds the root without children logs
\* 'No files found' and nothing else, and leaves the edges and the layers
\* as they were
C16_NoFilesFoundReturns ==
  [][(/\ cli'.log # cli.log
      /\ Len(nodes'[rootNode].sub) = 0)
     => /\ cli'.log = cli.log \o <<"No files found">>
        /\ edges' = edges
        /\ layers' = layers
        /\ \A i \in 1..Len(cli'.log) : cli'.log[i] \notin PipelineSteps]_vars

C16_Witness ==
  /\ cli.pc = "processed"
  /\ cli.kind = "dot"
  /\ Len(nodes[rootNode].sub) = 0
  /\ cli.log = <<"No files found">>

\* the DOT input has no file behind it, or a file without a digraph
NoDigraphToRead(file) == ~file.exists \/ (file.readable /\ ~file.digraph)

\* C17: a DOT run whose file is missing or holds no digraph ends with a thrown
\* Error, and the Containers, the leaf registry and the edges are as before
C17_BadDotThrowsAndKeepsGraph ==
  [][(/\ cli.pc = "start"
      /\ cli'.kind = "dot"
      /\ NoDigraphToRead(cli'.input.file))
     => /\ cli'.pc = "exited"
        /\ cli'.exit = 1
        /\ nodes' = nodes
        /\ leafNodes' = leafNodes
        /\ edges' = edges]_vars

C17_Witness ==
  /\ cli.pc = "exited"
  /\ cli.kind = "dot"
  /\ cli.input.file.exists
  /\ ~cli.input.file.digraph
  /\ cli.input.file.stmts # <<>>
  /\ cli.exit = 1
  /\ Len(nodes) = 1

\* a DOT run with exclude patterns that has loaded its graph
DotLoadedWithExcludes ==
  /\ cli.kind = "dot"
  /\ cli.pc = "parsed"
  /\ cli.input.exclude # <<>>

Excluded(nodeName) == matchesExcludePattern(nodeName, cli.input.exclude)

\* the name of a node of the digraph as loadGraphFromDot registers it
DotName(nodeName) ==
  LET parsed == parseDotContent(cli.input.file.stmts)
  IN IF StripLeadingSlash(parsed) = parsed THEN nodeName
     ELSE Substring1(nodeName)

NoExcludedLeaf ==
  \A c \in getAllNodes(nodes) : nodes[c].isLeaf => ~Excluded(nodes[c].data)

NoEdgeOnExcluded ==
  \A i \in 1..Len(edges) :
    /\ ~Excluded(nodes[edges[i].source].data)
    /\ ~Excluded(nodes[edges[i].target].data)

EveryOtherEdgeKept ==
  \A k \in 1..Len(cli.input.file.stmts) :
    LET st == cli.input.file.stmts[k]
    IN (st.t = "edge" /\ ~Excluded(DotName(st.a)) /\ ~Excluded(DotName(st.b)))
       => \E i \in 1..Len(edges) :
            /\ nodes[edges[i].source].data = DotName(st.a)
            /\ nodes[edges[i].target].data = DotName(st.b)

\* C18: after loadGraphFromDot with exclude patterns no leaf carries an
\* excluded payload, no edge has an excluded end, and every edge of the
\* digraph between two names that are not excluded is in the graph
C18_ExcludedGoneOthersKept ==
  DotLoadedWithExcludes =>
    NoExcludedLeaf /\ NoEdgeOnExcluded /\ EveryOtherEdgeKept

\* the glob reading of a pattern: the whole path is matched; * stands for
\* characters of one segment, ** for any characters, a leading **/ of a
\* part for any number of directories, ? for one character that is not '/'
RECURSIVE GlobReading(_, _)
GlobReading(pattern, filePath) ==
  LET After(k) == SubSeq(filePath, k + 1, Len(filePath))
      Starts(what) == /\ Len(pattern) >= Len(what)
                      /\ SubSeq(pattern, 1, Len(what)) = what
      Rest(what) == SubSeq(pattern, Len(what) + 1, Len(pattern))
  IN IF pattern = <<>> THEN filePath = <<>>
     ELSE IF Starts(<<"*", "*", "/">>)
     THEN \/ GlobReading(Rest(<<"*", "*", "/">>), filePath)
          \/ \E k \in 1..Len(filePath) :
               /\ filePath[k] = "/"
               /\ GlobReading(Rest(<<"*", "*", "/">>), After(k))
     ELSE IF Starts(<<"*", "*">>)
     THEN \E k \in 0..Len(filePath) : GlobReading(Rest(<<"*", "*">>), After(k))
     ELSE IF Starts(<<"*">>)
     THEN \E k \in 0..Len(filePath) :
            /\ \A i \in 1..k : filePath[i] # "/"
            /\ GlobReading(Tail(pattern), After(k))
     ELSE IF Starts(<<"?">>)
     THEN /\ filePath # <<>>
          /\ filePath[1] # "/"
          /\ GlobReading(Tail(pattern), Tail(filePath))
     ELSE /\ filePath # <<>>
          /\ filePath[1] = pattern[1]
          /\ GlobReading(Tail(pattern), Tail(filePath))

\* C19: matchesExcludePattern answers as the glob reading of the pattern
\* does: whole path, * inside one segment, ** at any depth, ? one character
\* other than '/'
C19_StarStaysInOneSegment ==
  last.op = "matchesExcludePattern" =>
    (last.ret = 1 <=> GlobReading(cli.input.pattern, cli.input.filePath))

\* the executions of processTheGraph in the run: each one logs either
\* 'No files found' or one generateSVG
ProcessTheGraphRuns ==
  Cardinality({i \in 1..Len(cli.log) :
                 cli.log[i] \in {"No files found", "generateSVG"}})

\* the run ended on an input that cannot be read: a DOT file that is missing
\* or holds no digraph, a failing 'dart pub deps'
UnreadableInput == cli.kind \in {"dot", "flutter"} /\ cli.exit = 1

\* C20: a run of the CLI on a DOT, Dart, Swift or JS/TS input executes
\* processTheGraph exactly once
C20_ProcessedExactlyOnce ==
  (cli.pc = "exited" /\ ~UnreadableInput) => ProcessTheGraphRuns = 1

\* the parser entry point that belongs to each kind of input
ParserOf ==
  [dot |-> "graphSvgFromDotFile", flutter |-> "graphSvgFromFlutterDart",
   swift |-> "generateDependenciesFromSwiftFiles",
   jsts |-> "generateDependenciesFromSourceFiles"]

\* C21: the first step of a run calls the parser of its kind of input: the
\* DOT parser for a .dot path, the Flutter/Dart parser beside a pubspec.yaml,
\* the Swift parser for a Swift project, the JS/TS parser otherwise
C21_RoutedToMatchingParser ==
  [][(cli.pc = "start" /\ cli'.pc # "start")
     => last'.op = ParserOf[cli'.kind]]_vars

\* the code of a source text: what is left when every comment (// to the end
\* of the line, /* to */) and every string literal (""" to """, a quote to
\* the same quote, a backslash taking the next character with it) is taken
\* out. mode is "code", "line", "block", "multi" or the quote of the string
RECURSIVE CodeOutside(_, _, _, _)
CodeOutside(content, i, mode, kept) ==
  LET char == CharAt(content, i)
      Ahead(k) == CharAt(content, i + k)
      Triple == char = "\"" /\ Ahead(1) = "\"" /\ Ahead(2) = "\""
  IN IF i > Len(content) THEN kept
     ELSE IF mode = "line"
     THEN (IF char = "\n" THEN CodeOutside(content, i + 1, "code", Append(kept, char))
           ELSE CodeOutside(content, i + 1, mode, kept))
     ELSE IF mode = "block"
     THEN (IF char = "*" /\ Ahead(1) = "/"
           THEN CodeOutside(content, i + 2, "code", kept)
           ELSE CodeOutside(content, i + 1, mode, kept))
     ELSE IF mode = "multi"
     THEN (IF Triple THEN CodeOutside(content, i + 3, "code", kept)
           ELSE CodeOutside(content, i + 1, mode, kept))
     ELSE IF mode # "code"
     THEN (IF char = "\\" THEN CodeOutside(content, i + 2, mode, kept)
           ELSE IF char = mode THEN CodeOutside(content, i + 1, "code", kept)
           ELSE CodeOutside(content, i + 1, mode, kept))
     ELSE IF char = "/" /\ Ahead(1) = "*"
     THEN CodeOutside(content, i + 2, "block", kept)
     ELSE IF char = "/" /\ Ahead(1) = "/"
     THEN CodeOutside(content, i + 2, "line", kept)
     ELSE IF Triple THEN CodeOutside(content, i + 3, "multi", kept)
     ELSE IF /\ char \in {"\"", "'"}
             /\ (kept = <<>> \/ kept[Len(kept)] # "\\")
     THEN CodeOutside(content, i + 1, char, kept)
     ELSE CodeOutside(content, i + 1, mode, Append(kept, char))

\* C22: removeCommentsAndStrings returns the code of the text: every comment
\* and every string literal is gone, escaped quotes included, and every
\* character outside them is kept
C22_OnlyCodeIsKept ==
  cli.pc = "removed" => cli.log = CodeOutside(cli.input, 1, "code", <<>>)

\* the segments joined by '/'
RECURSIVE JoinSegments(_)
JoinSegments(segments) ==
  IF segments = <<>> THEN <<>>
  ELSE IF Len(segments) = 1 THEN segments[1]
  ELSE segments[1] \o <<"/">> \o JoinSegments(Tail(segments))

\* the longest directory that contains every one of the payloads
LongestCommonDirectory(payloads) ==
  LET dirs == {SplitPath(Dirname(p)) : p \in payloads}
      common == {k \in 0..Min({Len(d) : d \in dirs}) :
                   \A d \in dirs, e \in dirs : SubSeq(d, 1, k) = SubSeq(e, 1, k)}
      any == CHOOSE d \in dirs : TRUE
  IN JoinSegments(SubSeq(any, 1, Max(common)))

\* the payloads of the leaves registered in the subtree of c
PayloadsBeneath(c) ==
  {nodes[n].data : n \in {m \in cumulateNodeInDataSet(nodes, c) \ {c} :
                            nodes[m].isLeaf}}

\* the containers created for the folders of the paths
Folders ==
  {c \in getAllNodes(nodes) \ {rootNode} :
     ~nodes[c].isLeaf /\ PayloadsBeneath(c) # {}}

\* C23: after the paths have been added, the data of every folder container
\* is the longest common directory of the payloads registered beneath it
C23_FolderDataIsCommonDirectory ==
  \A c \in Folders : nodes[c].data = LongestCommonDirectory(PayloadsBeneath(c))

\* assignLayers has returned its Map
Assigned == cli.kind = "assignLayers" /\ cli.pc = "done"

\* the nodes that can be reached from a node without incoming non-circular edge
ReachableFromSeeds ==
  ReachableFrom(edges, Seeds(edges, getAllNodesInEdges(edges)))

\* C24: the depth assignment gives 0 to every node without incoming
\* non-circular edge, and to every other node reachable from such a node
\* 1 + the maximum depth of its predecessors over non-circular edges
C24_DepthIsOnePlusMaxPredecessor ==
  Assigned =>
    \A n \in getAllNodesInEdges(edges) :
      /\ Predecessors(edges, n) = {} => layers[n] = 0
      /\ (Predecessors(edges, n) # {} /\ n \in ReachableFromSeeds)
           => layers[n] = 1 + Max({layers[q] : q \in Predecessors(edges, n)})

\* C25: assignLayers comes to its end on every edge list, cycles and
\* self-edges included, and the Map it returns holds a non-negative integer
\* for every node that appears in an edge
C25_TerminatesWithADepthForEveryNode ==
  <>(Assigned /\ \A n \in getAllNodesInEdges(edges) :
                   n \in DOMAIN layers /\ layers[n] \in Nat)

C25_Witness ==
  /\ Assigned
  /\ \E e \in SeqToSet(edges) : e.source = e.target
  /\ \E e \in SeqToSet(edges) : e.isCircular
  /\ \A n \in getAllNodesInEdges(edges) : \E e \in SeqToSet(edges) : e.target = n

\* the leaf registered for a payload
LeafOf(payload) == getLeafNodeByUserData(leafNodes, payload)

\* the pairs x.js / x.ts whose two leaves exist when the merge starts
PairsToMerge ==
  {pair \in fileSetToMerge(allFiles) : LeafOf(pair.js) # 0 /\ LeafOf(pair.ts) # 0}

C27_CachedEqualsFresh ==
  last.op = "getOutInCached"
    => last.ret = getOutIn(TheGraph, last.args[1], last.args[2])

\* C28: after an ingestion every edge joins two containers that are
\* reachable from the root
C28_EdgeEndsAreInTheTree ==
  (cli.pc # "start" /\ cli.kind \in {"dot", "flutter", "swift", "jsts"})
    => getAllNodesInEdges(edges) \subseteq getAllNodes(nodes)

\* the subtree that the last drop has removed
RemovedSubtree == cumulateNodeInDataSet(nodes, last.ret)

\* C29: after dropContainerAndInternalNodesAndLinks(c) no container of the
\* tree lists a node of the removed subtree in targetNodes or sourceNodes
C29_NoRollupEntryOfRemovedNodes ==
  last.op = "dropContainer" =>
    \A n \in getAllNodes(nodes) :
      /\ SeqToSet(nodes[n].targetNodes) \cap RemovedSubtree = {}
      /\ SeqToSet(nodes[n].sourceNodes) \cap RemovedSubtree = {}

\* the Containers of Graph k as its rootNode reaches them, with their fields
TreeOf(ns, k) == [n \in cumulateNodeInDataSet(ns, k) |-> ns[n]]

\* C30: an operation called on one Graph leaves the tree, the edges and the
\* targetNodes and sourceNodes lists of the other Graph as they were
C30_GraphsAreIsolated ==
  [][LET other == 3 - last'.graph
     IN /\ edges'[other] = edges[other]
        /\ TreeOf(nodes', other) = TreeOf(nodes, other)]_vars

====
